---- MODULE Spec2Model ----
(***************************************************************************)
(* Scoring engine of enhanced_scorer_v7.py (RaceScorer and its helpers)    *)
(* and the explanation formatters, as a state machine: a history of past   *)
(* race records is assembled record by record, calculate_total_score is    *)
(* applied to it, and the two formatters are applied to the breakdown;     *)
(* the loop of get_race_data (scraper_v5.py) then goes on to the next      *)
(* entrant of the same race.  A second specification, ScraperSpec, follows *)
(* one scraper session (NetkeibaRaceScraper): get_race_data analyses the   *)
(* running style of every entrant of a race card, predicts the pace of the *)
(* race and fetches each entrant's history through the cache keyed by      *)
(* the horse's name, and clear_cache empties that cache.                   *)
(*                                                                         *)
(* Encoding.  Times are integers in tenths of a second, points are         *)
(* integers in tenths of a point (finer units are named where used),       *)
(* coefficients are integers in hundredths.  A Python dict is a TLA+       *)
(* record; a missing key is a field outside DOMAIN and Get is dict.get.    *)
(* Text is ASCII: course names are romanised ("Tokyo" = the Tokyo course,  *)
(* suffix Soto/Uchi = outer/inner loop), surfaces are "turf", "dirt",      *)
(* "jump", "unknown", styles are "nige" (front-runner), "senko" (stalker), *)
(* "sashi" (closer), "oikomi" (deep closer), paces are "slow", "middle",   *)
(* "high".  A race label is a sequence of tokens, one per ASCII character  *)
(* and one per Japanese keyword ("shinba" = debut race, "mishori" =        *)
(* maiden, "sho1" = 1-win class ...), so that `x in label` is a            *)
(* subsequence test.  A date is a day number; 0 is the empty string and    *)
(* -1 a text strptime rejects.                                             *)
(*                                                                         *)
(* Arithmetic.  Every product and sum is carried exactly, in the unit      *)
(* named at the operator, and round(x, 1) is applied to the exact value,   *)
(* halves going to the even neighbour.  The program rounds the binary      *)
(* double nearest to that value: where the exact value is a half of a      *)
(* tenth the double lies a fraction above or below it and the program's    *)
(* result may be the other neighbour, 0.1 point away.                      *)
(***************************************************************************)
EXTENDS Integers, Sequences, FiniteSets, TLC

VARIABLES
    history,      \* history_data: the past race records, most recent first
    ctx,          \* the other arguments of calculate_total_score
    pool,         \* the records the data source can deliver in this run
    today,        \* datetime.now() as a day number
    result,       \* the breakdown returned by calculate_total_score
    text,         \* outcome of format_score_breakdown
    vtext,        \* outcome of format_score_breakdown_verbose
    pc,           \* "input" until the engine has run, then "scored"
    horse_cache_by_name,  \* st.session_state.horse_cache_by_name
    cache_hits,           \* self.cache_hits
    api_calls,            \* self.api_calls
    calls,        \* the calls of _get_horse_history_cached since clear_cache
    answer,       \* the last call: its arguments, what it returned, and
                  \* whether it fetched the page
    card,         \* df: the rows of the race card
    race_venue,   \* course of the race of the card
    row_index,    \* the rows the running loop has gone through
    all_running_styles,   \* the styles gathered by the first loop
    pace_prediction,      \* the pace predicted for the race, or None
    phase         \* "styles", "scoring" or "done"; "idle" outside a session

\* the engine and its caller
evars == <<history, ctx, pool, today, result, text, vtext, pc>>

\* the history cache and its counters
cvars == <<horse_cache_by_name, cache_hits, api_calls, calls, answer>>

\* the scraper's session
svars == <<cvars, card, race_venue, row_index, all_running_styles, pace_prediction, phase>>

vars == <<evars, svars>>

----------------------------------------------------------------------------
(* Python primitives *)

Get(r, f, d) == IF f \in DOMAIN r THEN r[f] ELSE d

Abs(n) == IF n < 0 THEN -n ELSE n

Min2(a, b) == IF a <= b THEN a ELSE b

\* history_data[:n]
Take(s, n) == SubSeq(s, 1, Min2(n, Len(s)))

\* round(n/d, 0) for d > 0, halves to the even neighbour
RoundDiv(n, d) ==
    LET q == n \div d
        r == n % d
    IN  IF 2 * r < d THEN q
        ELSE IF 2 * r > d THEN q + 1
        ELSE IF q % 2 = 0 THEN q ELSE q + 1

\* pat in s, for sequences of tokens
Contains(s, pat) ==
    \E i \in 0 .. (Len(s) - Len(pat)) :
        \A j \in 1 .. Len(pat) : s[i + j] = pat[j]

\* str.upper() on one token
UpperTok(t) ==
    CASE t = "p" -> "P"
      [] t = "n" -> "N"
      [] t = "g" -> "G"
      [] t = "o" -> "O"
      [] t = "i" -> "I"
      [] OTHER -> t

Upper(s) == [i \in 1 .. Len(s) |-> UpperTok(s[i])]

RECURSIVE SumSeq(_)
SumSeq(s) == IF s = <<>> THEN 0 ELSE Head(s) + SumSeq(Tail(s))

\* [f(x) for x in s if p(x)] is SelectSeq then a map
MapLast3f(s) == [i \in 1 .. Len(s) |-> Get(s[i], "last_3f", 0)]

----------------------------------------------------------------------------
(* CourseAnalyzer, src/enhanced_scorer_v7.py:27-246 *)

\* times in tenths of a second; keyed by (variant, distance)
COURSE_RECORDS ==
       <<"Tokyo", 1400>> :> 798
    @@ <<"Tokyo", 1600>> :> 905
    @@ <<"Tokyo", 1800>> :> 1035
    @@ <<"Tokyo", 2000>> :> 1161
    @@ <<"Tokyo", 2400>> :> 1412
    @@ <<"Tokyo", 3400>> :> 2084
    @@ <<"Nakayama", 1200>> :> 673
    @@ <<"Nakayama", 1600>> :> 917
    @@ <<"Nakayama", 1800>> :> 1061
    @@ <<"Nakayama", 2000>> :> 1180
    @@ <<"Nakayama", 2200>> :> 1310
    @@ <<"Nakayama", 2500>> :> 1507
    @@ <<"HanshinSoto", 1600>> :> 913
    @@ <<"HanshinSoto", 1800>> :> 1032
    @@ <<"HanshinSoto", 2000>> :> 1155
    @@ <<"HanshinSoto", 2400>> :> 1409
    @@ <<"HanshinUchi", 1200>> :> 674
    @@ <<"HanshinUchi", 1400>> :> 793
    @@ <<"HanshinUchi", 1800>> :> 1060
    @@ <<"HanshinUchi", 2000>> :> 1180
    @@ <<"HanshinUchi", 2200>> :> 1315
    @@ <<"KyotoSoto", 1600>> :> 905
    @@ <<"KyotoSoto", 1800>> :> 1035
    @@ <<"KyotoSoto", 2000>> :> 1168
    @@ <<"KyotoSoto", 2200>> :> 1305
    @@ <<"KyotoSoto", 2400>> :> 1435
    @@ <<"KyotoSoto", 3000>> :> 1790
    @@ <<"KyotoSoto", 3200>> :> 1925
    @@ <<"KyotoUchi", 1200>> :> 685
    @@ <<"KyotoUchi", 1400>> :> 810
    @@ <<"KyotoUchi", 1600>> :> 925
    @@ <<"KyotoUchi", 1800>> :> 1055
    @@ <<"KyotoUchi", 2000>> :> 1185
    @@ <<"NiigataSoto", 1600>> :> 905
    @@ <<"NiigataSoto", 1800>> :> 1045
    @@ <<"NiigataSoto", 2000>> :> 1175
    @@ <<"NiigataSoto", 2200>> :> 1305
    @@ <<"NiigataSoto", 2400>> :> 1440
    @@ <<"NiigataUchi", 1000>> :> 555
    @@ <<"NiigataUchi", 1200>> :> 675
    @@ <<"NiigataUchi", 1400>> :> 815
    @@ <<"NiigataUchi", 2000>> :> 1185
    @@ <<"Chukyo", 1200>> :> 683
    @@ <<"Chukyo", 1400>> :> 815
    @@ <<"Chukyo", 1600>> :> 935
    @@ <<"Chukyo", 2000>> :> 1193
    @@ <<"Kokura", 1200>> :> 679
    @@ <<"Kokura", 1800>> :> 1065
    @@ <<"Kokura", 2000>> :> 1195
    @@ <<"Kokura", 2600>> :> 1595
    @@ <<"Fukushima", 1200>> :> 680
    @@ <<"Fukushima", 1700>> :> 1018
    @@ <<"Fukushima", 1800>> :> 1070
    @@ <<"Fukushima", 2000>> :> 1198
    @@ <<"Fukushima", 2600>> :> 1600
    @@ <<"Sapporo", 1200>> :> 686
    @@ <<"Sapporo", 1500>> :> 890
    @@ <<"Sapporo", 1800>> :> 1072
    @@ <<"Sapporo", 2000>> :> 1200
    @@ <<"Sapporo", 2600>> :> 1605
    @@ <<"Hakodate", 1200>> :> 683
    @@ <<"Hakodate", 1800>> :> 1075
    @@ <<"Hakodate", 2000>> :> 1202
    @@ <<"Hakodate", 2600>> :> 1610


CourseRecord(variant, dist) ==
    IF <<variant, dist>> \in DOMAIN COURSE_RECORDS
    THEN COURSE_RECORDS[<<variant, dist>>] ELSE 0

detect_track_variant(course, distance, distance_text) ==
    IF distance_text = "soto" THEN course \o "Soto"
    ELSE IF distance_text = "uchi" THEN course \o "Uchi"
    ELSE IF course = "Kyoto"
         THEN IF distance \in {2200, 2400, 3000, 3200} THEN "KyotoSoto" ELSE "KyotoUchi"
    ELSE IF course = "Hanshin"
         THEN IF distance <= 1400 THEN "HanshinUchi"
              ELSE IF distance = 2200 THEN "HanshinUchi"
              ELSE "HanshinSoto"
    ELSE IF course = "Niigata"
         THEN IF distance <= 1600 THEN "NiigataUchi"
              ELSE IF distance >= 1800 THEN "NiigataSoto"
              ELSE "NiigataUchi"
    ELSE course

----------------------------------------------------------------------------
(* RunningStyleAnalyzer, src/enhanced_scorer_v7.py:249-453 *)

COURSE_CHARACTERISTICS ==
       "Tokyo" :> [straight |-> 525, favor |-> {"sashi", "oikomi"}]
    @@ "Kyoto" :> [straight |-> 403, favor |-> {"senko", "sashi"}]
    @@ "Hanshin" :> [straight |-> 356, favor |-> {"senko"}]
    @@ "Nakayama" :> [straight |-> 310, favor |-> {"nige", "senko"}]
    @@ "Niigata" :> [straight |-> 659, favor |-> {"sashi", "oikomi"}]
    @@ "Kokura" :> [straight |-> 293, favor |-> {"nige", "senko"}]
    @@ "Fukushima" :> [straight |-> 292, favor |-> {"nige", "senko"}]
    @@ "Hakodate" :> [straight |-> 262, favor |-> {"senko"}]
    @@ "Sapporo" :> [straight |-> 266, favor |-> {"senko"}]
    @@ "Chukyo" :> [straight |-> 412, favor |-> {"sashi"}]


\* multipliers in hundredths; keyed by (course, distance)
COURSE_DISTANCE_STYLE_WEIGHTS ==
       <<"Tokyo", 1400>> :> [nige |-> 8, senko |-> 12, sashi |-> 20, oikomi |-> 15]
    @@ <<"Tokyo", 1600>> :> [nige |-> 5, senko |-> 10, sashi |-> 20, oikomi |-> 15]
    @@ <<"Tokyo", 1800>> :> [nige |-> 3, senko |-> 8, sashi |-> 15, oikomi |-> 12]
    @@ <<"Tokyo", 2000>> :> [nige |-> 3, senko |-> 8, sashi |-> 15, oikomi |-> 12]
    @@ <<"Tokyo", 2400>> :> [nige |-> 2, senko |-> 5, sashi |-> 10, oikomi |-> 8]
    @@ <<"Nakayama", 1200>> :> [nige |-> 20, senko |-> 20, sashi |-> 10, oikomi |-> 5]
    @@ <<"Nakayama", 1600>> :> [nige |-> 15, senko |-> 20, sashi |-> 10, oikomi |-> 5]
    @@ <<"Nakayama", 1800>> :> [nige |-> 12, senko |-> 18, sashi |-> 12, oikomi |-> 8]
    @@ <<"Nakayama", 2000>> :> [nige |-> 12, senko |-> 18, sashi |-> 12, oikomi |-> 8]
    @@ <<"Nakayama", 2500>> :> [nige |-> 8, senko |-> 12, sashi |-> 10, oikomi |-> 8]
    @@ <<"Niigata", 1600>> :> [nige |-> 3, senko |-> 8, sashi |-> 20, oikomi |-> 18]
    @@ <<"Niigata", 1800>> :> [nige |-> 3, senko |-> 8, sashi |-> 18, oikomi |-> 15]
    @@ <<"Niigata", 2000>> :> [nige |-> 2, senko |-> 5, sashi |-> 15, oikomi |-> 12]
    @@ <<"Kyoto", 1400>> :> [nige |-> 10, senko |-> 15, sashi |-> 15, oikomi |-> 10]
    @@ <<"Kyoto", 1600>> :> [nige |-> 8, senko |-> 15, sashi |-> 15, oikomi |-> 10]
    @@ <<"Kyoto", 1800>> :> [nige |-> 5, senko |-> 12, sashi |-> 12, oikomi |-> 8]
    @@ <<"Kyoto", 2000>> :> [nige |-> 5, senko |-> 12, sashi |-> 12, oikomi |-> 8]
    @@ <<"Hanshin", 1400>> :> [nige |-> 12, senko |-> 18, sashi |-> 12, oikomi |-> 8]
    @@ <<"Hanshin", 1600>> :> [nige |-> 10, senko |-> 15, sashi |-> 12, oikomi |-> 8]
    @@ <<"Hanshin", 1800>> :> [nige |-> 8, senko |-> 12, sashi |-> 10, oikomi |-> 8]
    @@ <<"Hanshin", 2000>> :> [nige |-> 8, senko |-> 12, sashi |-> 10, oikomi |-> 8]
    @@ <<"Kokura", 1200>> :> [nige |-> 20, senko |-> 20, sashi |-> 10, oikomi |-> 5]
    @@ <<"Kokura", 1700>> :> [nige |-> 15, senko |-> 18, sashi |-> 10, oikomi |-> 5]
    @@ <<"Kokura", 1800>> :> [nige |-> 12, senko |-> 15, sashi |-> 10, oikomi |-> 5]
    @@ <<"Kokura", 2000>> :> [nige |-> 10, senko |-> 12, sashi |-> 10, oikomi |-> 8]
    @@ <<"Chukyo", 1200>> :> [nige |-> 12, senko |-> 15, sashi |-> 15, oikomi |-> 10]
    @@ <<"Chukyo", 1400>> :> [nige |-> 10, senko |-> 12, sashi |-> 18, oikomi |-> 12]
    @@ <<"Chukyo", 1600>> :> [nige |-> 8, senko |-> 10, sashi |-> 18, oikomi |-> 12]
    @@ <<"Chukyo", 1800>> :> [nige |-> 5, senko |-> 8, sashi |-> 15, oikomi |-> 10]
    @@ <<"Chukyo", 2000>> :> [nige |-> 5, senko |-> 8, sashi |-> 15, oikomi |-> 10]
    @@ <<"Fukushima", 1200>> :> [nige |-> 18, senko |-> 18, sashi |-> 10, oikomi |-> 5]
    @@ <<"Fukushima", 1700>> :> [nige |-> 15, senko |-> 18, sashi |-> 12, oikomi |-> 8]
    @@ <<"Fukushima", 1800>> :> [nige |-> 12, senko |-> 15, sashi |-> 12, oikomi |-> 8]
    @@ <<"Fukushima", 2000>> :> [nige |-> 10, senko |-> 12, sashi |-> 12, oikomi |-> 8]
    @@ <<"Sapporo", 1200>> :> [nige |-> 15, senko |-> 18, sashi |-> 12, oikomi |-> 8]
    @@ <<"Sapporo", 1500>> :> [nige |-> 12, senko |-> 15, sashi |-> 12, oikomi |-> 8]
    @@ <<"Sapporo", 1800>> :> [nige |-> 10, senko |-> 12, sashi |-> 12, oikomi |-> 10]
    @@ <<"Sapporo", 2000>> :> [nige |-> 8, senko |-> 10, sashi |-> 12, oikomi |-> 10]
    @@ <<"Hakodate", 1200>> :> [nige |-> 15, senko |-> 18, sashi |-> 10, oikomi |-> 5]
    @@ <<"Hakodate", 1800>> :> [nige |-> 10, senko |-> 12, sashi |-> 12, oikomi |-> 8]
    @@ <<"Hakodate", 2000>> :> [nige |-> 8, senko |-> 10, sashi |-> 12, oikomi |-> 10]

\* position_4c / field_size <= p / 100
RatioAtMost(position_4c, field_size, p) == position_4c * 100 <= p * field_size

\* last_3f and race_avg_3f in tenths of a second, confidence in hundredths
classify_running_style(position_4c, field_size, last_3f, race_avg_3f) ==
    IF position_4c <= 0 \/ field_size <= 0 THEN [style |-> "unknown", confidence |-> 0]
    ELSE IF RatioAtMost(position_4c, field_size, 15) THEN [style |-> "nige", confidence |-> 90]
    ELSE IF RatioAtMost(position_4c, field_size, 35) THEN [style |-> "senko", confidence |-> 85]
    ELSE IF RatioAtMost(position_4c, field_size, 65)
         THEN IF race_avg_3f > 0 /\ last_3f < race_avg_3f - 3
              THEN [style |-> "sashi", confidence |-> 80]
              ELSE [style |-> "sashi", confidence |-> 70]
    ELSE IF race_avg_3f > 0 /\ last_3f < race_avg_3f - 5
         THEN [style |-> "oikomi", confidence |-> 85]
         ELSE [style |-> "oikomi", confidence |-> 75]

\* style_counts.get('nige', 0) + style_counts.get('senko', 0)
FrontRunners(horses) ==
    Cardinality({i \in 1 .. Len(horses) : Get(horses[i], "style", "unknown") \in {"nige", "senko"}})

\* a ladder that calls a field without front-runners fast
PaceTierInverted(front_runners, slow_max, middle_max, ratios) ==
    IF front_runners <= slow_max THEN [pace |-> "high", front_ratio |-> ratios[3]]
    ELSE IF front_runners <= middle_max THEN [pace |-> "middle", front_ratio |-> ratios[2]]
    ELSE [pace |-> "slow", front_ratio |-> ratios[1]]

\* one tier of thresholds; front_ratio in hundredths
PaceTier(front_runners, slow_max, middle_max, ratios) ==
    IF front_runners <= slow_max THEN [pace |-> "slow", front_ratio |-> ratios[1]]
    ELSE IF front_runners <= middle_max THEN [pace |-> "middle", front_ratio |-> ratios[2]]
    ELSE [pace |-> "high", front_ratio |-> ratios[3]]

\* course_info.get('straight', 400)
StraightLength(course) ==
    IF course \in DOMAIN COURSE_CHARACTERISTICS
    THEN COURSE_CHARACTERISTICS[course].straight ELSE 400

predict_race_pace(horses, field_size, course) ==
    LET front_runners == FrontRunners(horses)
        straight_length == StraightLength(course)
        tier == IF straight_length >= 500
                THEN PaceTier(front_runners, 2, 4, <<30, 45, 55>>)
                ELSE IF straight_length <= 320
                THEN PaceTier(front_runners, 1, 3, <<45, 55, 65>>)
                ELSE PaceTier(front_runners, 2, 4, <<35, 50, 60>>)
    IN  IF horses = <<>> THEN [pace |-> "middle", front_ratio |-> 30]
        ELSE tier @@ [straight_length |-> straight_length]

\* bonus_map, in hundredths of a point
StyleBonusMap(pace, style) ==
    IF style \notin {"nige", "senko", "sashi", "oikomi"} THEN 0
    ELSE CASE pace = "slow"   -> [nige |-> 1500, senko |-> 1200, sashi |-> 1000, oikomi |-> 800][style]
           [] pace = "middle" -> [nige |-> 1000, senko |-> 1200, sashi |-> 1200, oikomi |-> 1000][style]
           [] pace = "high"   -> [nige |-> 500, senko |-> 800, sashi |-> 1500, oikomi |-> 1800][style]
           [] OTHER -> 0

\* in hundredths of a point
calculate_style_match_bonus(style, pace, course, distance) ==
    LET base_bonus == StyleBonusMap(pace, style)
        favored_styles == IF course \in DOMAIN COURSE_CHARACTERISTICS
                          THEN COURSE_CHARACTERISTICS[course].favor ELSE {}
    IN  IF style \in favored_styles THEN (base_bonus * 12) \div 10 ELSE base_bonus

StyleWeightDistances(course) ==
    {k[2] : k \in {kk \in DOMAIN COURSE_DISTANCE_STYLE_WEIGHTS : kk[1] = course}}

\* min(distances, key=lambda x: abs(x - distance)) over the sorted keys
ClosestDistance(distances, distance) ==
    CHOOSE c \in distances :
        \A o \in distances :
            \/ Abs(c - distance) < Abs(o - distance)
            \/ (Abs(c - distance) = Abs(o - distance) /\ c <= o)

\* in hundredths
get_style_weight(course, distance, style) ==
    LET distances == StyleWeightDistances(course)
        row(d) == COURSE_DISTANCE_STYLE_WEIGHTS[<<course, d>>]
    IN  IF distance \in distances THEN Get(row(distance), style, 100)
        ELSE IF distances = {} THEN 100
        ELSE Get(row(ClosestDistance(distances, distance)), style, 100)

----------------------------------------------------------------------------
(* RaceScorer: classification helpers, src/enhanced_scorer_v7.py:464-534 *)

\* a classification that tries the shortest marker of the graded tiers first
DetectGradeShortFirst(race_name) ==
    LET name == Upper(race_name)
        has(p) == Contains(name, p)
    IN  IF race_name = <<>> THEN <<"unknown", 60>>
        ELSE IF has(<<"G", "1">>) \/ has(<<"G", "I">>)
                \/ has(<<"J", "P", "N", "I">>) THEN <<"G1", 100>>
        ELSE IF has(<<"G", "2">>) THEN <<"G2", 95>>
        ELSE IF has(<<"G", "3">>) THEN <<"G3", 90>>
        ELSE <<"unknown", 60>>

\* <<grade, reliability coefficient in hundredths>>
detect_race_grade(race_name) ==
    LET name == Upper(race_name)
        has(p) == Contains(name, p)
        raw(p) == Contains(race_name, p)
    IN  IF race_name = <<>> THEN <<"unknown", 60>>
        ELSE IF has(<<"G", "3">>) \/ has(<<"G", "I", "I", "I">>)
                \/ has(<<"J", "P", "N", "I", "I", "I">>) THEN <<"G3", 90>>
        ELSE IF has(<<"G", "2">>) \/ has(<<"G", "I", "I">>)
                \/ has(<<"J", "P", "N", "I", "I">>) THEN <<"G2", 95>>
        ELSE IF has(<<"G", "1">>) \/ has(<<"G", "I">>)
                \/ has(<<"J", "P", "N", "I">>) THEN <<"G1", 100>>
        ELSE IF has(<<"O", "P">>) \/ raw(<<"open">>) \/ raw(<<"listed">>)
                \/ raw(<<"(", "L", ")">>) THEN <<"OP", 85>>
        ELSE IF raw(<<"sho3">>) \/ raw(<<"man1600">>) THEN <<"3sho", 80>>
        ELSE IF raw(<<"sho2">>) \/ raw(<<"man1000">>) THEN <<"2sho", 75>>
        ELSE IF raw(<<"sho1">>) \/ raw(<<"man500">>) THEN <<"1sho", 70>>
        ELSE IF raw(<<"mishori">>) \/ raw(<<"shinba">>) THEN <<"mishori", 65>>
        ELSE <<"unknown", 60>>

local_courses ==
    {"Oi", "Kawasaki", "Funabashi", "Urawa", "Monbetsu", "Morioka", "Mizusawa",
     "Kanazawa", "Kasamatsu", "Nagoya", "Sonoda", "Himeji", "Kochi", "Saga"}

exchange_race_keywords ==
    {<<"J", "p", "n", "I">>, <<"J", "p", "n", "I", "I">>, <<"J", "p", "n", "I", "I", "I">>,
     <<"J", "p", "n", "1">>, <<"J", "p", "n", "2">>, <<"J", "p", "n", "3">>}

\* a course is a bare venue name, so `lc in course` is equality
_is_local_race(race_name, course) ==
    IF \E keyword \in exchange_race_keywords : Contains(race_name, keyword) THEN FALSE
    ELSE \E lc \in local_courses : lc = course \/ Contains(race_name, <<lc>>)

\* "da" is the dirt mark and "shogai" the steeplechase mark of a label; no
\* venue name contains the dirt mark, so `'da' not in course` is true
_get_track_type_by_distance(distance, race_name, course) ==
    IF Contains(race_name, <<"da">>) THEN "dirt"
    ELSE IF Contains(race_name, <<"shogai">>) THEN "jump"
    ELSE IF distance <= 1200 THEN "turf"
    ELSE IF distance <= 1600 THEN "turf"
    ELSE IF distance >= 3000
         THEN IF Contains(race_name, <<"shogai">>) THEN "jump" ELSE "turf"
    ELSE "turf"

\* in tenths of a second
_get_default_baseline_3f(distance, track_type) ==
    IF track_type = "dirt"
    THEN IF distance <= 1400 THEN 375 ELSE IF distance <= 1800 THEN 380 ELSE 385
    ELSE IF distance <= 1400 THEN 345
         ELSE IF distance <= 1800 THEN 350
         ELSE IF distance <= 2200 THEN 355
         ELSE 365

----------------------------------------------------------------------------
(* RaceScorer: sub-scores, src/enhanced_scorer_v7.py:536-1193 *)

\* chakujun == 0 or chakujun >= 90: withdrawn, disqualified, no race
NonFinisher(race) ==
    LET chakujun == Get(race, "chakujun", 99)
    IN  chakujun = 0 \/ chakujun >= 90

\* the margin-derived coefficient shared by the distance and course scores,
\* in hundredths; goal_time_diff is in tenths of a second
MarginCoef(race) ==
    LET chakujun == Get(race, "chakujun", 99)
    IN  IF "goal_time_diff" \in DOMAIN race /\ race.goal_time_diff # 0
        THEN LET margin == Abs(race.goal_time_diff)
             IN  IF margin <= 3 THEN 100
                 ELSE IF margin <= 6 THEN 85
                 ELSE IF margin <= 10 THEN 70
                 ELSE IF margin <= 15 THEN 50
                 ELSE IF margin <= 25 THEN 30
                 ELSE 10
        ELSE IF chakujun = 1 THEN 100
             ELSE IF chakujun = 2 THEN 85
             ELSE IF chakujun = 3 THEN 70
             ELSE IF chakujun <= 5 THEN 50
             ELSE IF chakujun <= 9 THEN 30
             ELSE 10

\* TIME_WEIGHTS = [1.0, 0.8, 0.6, 0.5, 0.4], in tenths
SuitabilityWeights == <<10, 8, 6, 5, 4>>

\* base points taken from the signed difference target - past
DistanceBasePtsSigned(target_distance, dist) ==
    LET diff == target_distance - dist
    IN  IF diff <= 200 THEN 600 - diff
        ELSE IF diff <= 400 THEN 400
        ELSE IF diff <= 600 THEN 200
        ELSE 0

\* base points of the distance score in fortieths of a point
DistanceBasePts(target_distance, dist) ==
    LET diff == Abs(target_distance - dist)
    IN  IF diff <= 200 THEN 600 - diff
        ELSE IF diff <= 400 THEN 400
        ELSE IF diff <= 600 THEN 200
        ELSE 0

\* records of history_data[:5] the distance score evaluates
DistanceUsed(h) ==
    {i \in 1 .. Len(h) : Get(h[i], "dist", 0) > 0 /\ ~NonFinisher(h[i])}

RECURSIVE SumOver(_, _)
SumOver(f, S) ==
    IF S = {} THEN 0
    ELSE LET x == CHOOSE y \in S : TRUE
         IN  f[x] + SumOver(f, S \ {x})

\* in tenths of a point
_calculate_distance_score(history_data, target_distance) ==
    LET h == Take(history_data, 5)
        used == DistanceUsed(h)
        weighted_score ==
            SumOver([i \in used |->
                DistanceBasePts(target_distance, h[i].dist) * MarginCoef(h[i])
                    * SuitabilityWeights[i]], used)
        weighted_denom == SumOver([i \in used |-> SuitabilityWeights[i]], used)
    IN  IF history_data = <<>> THEN 0
        ELSE IF weighted_denom = 0 THEN 0
        ELSE Min2(RoundDiv(weighted_score, 400 * weighted_denom), 150)

\* base points that also pay 8 for the target surface at another course
CourseBasePtsAnywhere(race, target_course, target_track_type) ==
    IF Get(race, "course", "") = target_course
    THEN IF Get(race, "track_type", "") = target_track_type THEN 15 ELSE 8
    ELSE IF Get(race, "track_type", "") = target_track_type THEN 8 ELSE 0

\* base points of the course score, in points
CourseBasePts(race, target_course, target_track_type) ==
    LET course == Get(race, "course", "")
        track_type == Get(race, "track_type", "")
        same_course == (course = target_course)
        same_track == (target_track_type = "" \/ track_type = ""
                       \/ track_type = target_track_type)
    IN  IF same_course /\ same_track THEN 15
        ELSE IF same_course /\ ~same_track THEN 8
        ELSE 0

\* in tenths of a point
_calculate_course_score(history_data, target_course, target_track_type) ==
    LET h == Take(history_data, 5)
        used == {i \in 1 .. Len(h) : ~NonFinisher(h[i])}
        weighted_score ==
            SumOver([i \in used |->
                CourseBasePts(h[i], target_course, target_track_type) * MarginCoef(h[i])
                    * SuitabilityWeights[i]], used)
        weighted_denom == SumOver([i \in used |-> SuitabilityWeights[i]], used)
    IN  IF history_data = <<>> THEN 0
        ELSE IF weighted_denom = 0 THEN 0
        ELSE Min2(RoundDiv(weighted_score, 10 * weighted_denom), 150)

FillySexes == {"hin", "hinba", "mesu", "F", "f"}

\* current_weight in tenths of a kilogram; a context without horse_age or
\* horse_sex is a call that leaves the argument None; result in tenths
_calculate_weight_penalty(current_weight, c) ==
    LET known == "horse_age" \in DOMAIN c /\ "horse_sex" \in DOMAIN c
        baseline_weight ==
            IF known
            THEN IF c.horse_age >= 4
                 THEN IF c.horse_sex \in FillySexes THEN 560 ELSE 580
                 ELSE IF c.horse_age = 3
                 THEN IF c.horse_sex \in FillySexes THEN 550 ELSE 570
                 ELSE 550
            ELSE 580
    IN  IF current_weight <= 0 THEN 0
        ELSE -(current_weight - baseline_weight)

\* a ladder without the step for the longest layoffs
LayoffLadderNoFloor(days_since) ==
    IF days_since <= 120 THEN 0
    ELSE IF days_since <= 240 THEN -80
    ELSE -160

\* the ladder on days_since, in tenths of a point; months_since <= m is
\* days_since / 30.44 <= m
LayoffLadder(days_since) ==
    LET upto(m) == days_since * 100 <= m * 3044
    IN  IF days_since <= 120 THEN 0
        ELSE IF upto(4) THEN -40
        ELSE IF upto(5) THEN -60
        ELSE IF upto(6) THEN -80
        ELSE IF upto(7) THEN -100
        ELSE IF upto(8) THEN -110
        ELSE IF upto(9) THEN -120
        ELSE IF upto(10) THEN -140
        ELSE IF upto(11) THEN -160
        ELSE -200

\* a date is a day number; 0 is '' and -1 is a text strptime rejects
_calculate_layoff_penalty(history_data, now) ==
    IF history_data = <<>> THEN 0
    ELSE LET race_date == Get(history_data[1], "race_date", 0)
         IN  IF race_date = 0 THEN 0
             ELSE IF race_date < 0 THEN 0
             ELSE LayoffLadder(now - race_date)

\* time_decay = 1.0 - idx * 0.15, in hundredths, for the 1-based slot i
TimeDecay(i) == 100 - (i - 1) * 15

GradeRaceBonus(race) ==
    LET grade == detect_race_grade(Get(race, "race_name", <<>>))[1]
        chakujun == Get(race, "chakujun", 99)
    IN  IF grade = "G1"
        THEN IF chakujun = 1 THEN 10 ELSE IF chakujun \in {2, 3} THEN 8 ELSE 5
        ELSE IF grade = "G2"
        THEN IF chakujun = 1 THEN 7 ELSE IF chakujun \in {2, 3} THEN 5 ELSE 3
        ELSE IF grade = "G3"
        THEN IF chakujun = 1 THEN 5 ELSE IF chakujun \in {2, 3} THEN 3 ELSE 2
        ELSE 0

\* a bonus summed over the whole history instead of history_data[:5]
GradeRaceBonusWholeHistory(history_data) ==
    LET h == history_data
        used == {i \in 1 .. Len(h) : ~NonFinisher(h[i])}
    IN  RoundDiv(SumOver([i \in used |-> GradeRaceBonus(h[i]) * TimeDecay(i)], used), 10)

\* in tenths of a point
_calculate_grade_race_bonus(history_data) ==
    LET h == Take(history_data, 5)
        used == {i \in 1 .. Len(h) : ~NonFinisher(h[i])}
    IN  RoundDiv(SumOver([i \in used |-> GradeRaceBonus(h[i]) * TimeDecay(i)], used), 10)

\* threshold in tenths of a second; a missing goal_time_diff is None
RECURSIVE count_consecutive_big_losses(_, _)
count_consecutive_big_losses(h, threshold) ==
    IF h = <<>> THEN 0
    ELSE IF "goal_time_diff" \in DOMAIN Head(h) /\ Head(h).goal_time_diff >= threshold
         THEN 1 + count_consecutive_big_losses(Tail(h), threshold)
         ELSE 0

\* a check that excuses no loss
ShouldReduceNever(history_data, loss_index) == FALSE

\* loss_index is the 0-based index of the code; history_data[loss_index + 1]
\* is the start before the loss
_should_reduce_big_loss_penalty(history_data, loss_index) ==
    IF loss_index >= Len(history_data) THEN FALSE
    ELSE IF ~(loss_index + 1 < Len(history_data)) THEN FALSE
    ELSE LET loss_race == history_data[loss_index + 1]
             prev_race == history_data[loss_index + 2]
             loss_distance == Get(loss_race, "dist", 0)
             prev_distance == Get(prev_race, "dist", 0)
             prev_chakujun == Get(prev_race, "chakujun", 0)
             loss_date == Get(loss_race, "race_date", 0)
             prev_date == Get(prev_race, "race_date", 0)
         IN  \/ Abs(loss_distance - prev_distance) >= 600
             \/ prev_chakujun = 0
             \/ /\ loss_date # 0 /\ prev_date # 0
                /\ loss_date > 0 /\ prev_date > 0
                /\ loss_date - prev_date >= 120

\* a scan that steps over an excused loss and goes on counting behind it
RECURSIVE ReducedCountPastExcused(_, _, _)
ReducedCountPastExcused(history_data, i, consecutive_losses) ==
    IF i >= consecutive_losses THEN 0
    ELSE (IF _should_reduce_big_loss_penalty(history_data, i) THEN 0 ELSE 1)
         + ReducedCountPastExcused(history_data, i + 1, consecutive_losses)

\* the loop `for i in range(consecutive_losses)` from index i on: the number
\* of losses counted before the first excused one, where the loop breaks
RECURSIVE ReducedCount(_, _, _)
ReducedCount(history_data, i, consecutive_losses) ==
    IF i >= consecutive_losses THEN 0
    ELSE IF _should_reduce_big_loss_penalty(history_data, i) THEN 0
    ELSE 1 + ReducedCount(history_data, i + 1, consecutive_losses)

\* a ladder whose last step is -12.0
LossTierShallow(reduced_count) ==
    IF reduced_count = 0 THEN 0
    ELSE IF reduced_count = 1 THEN -30
    ELSE IF reduced_count = 2 THEN -80
    ELSE -120

LossTier(reduced_count) ==
    IF reduced_count = 0 THEN 0
    ELSE IF reduced_count = 1 THEN -30
    ELSE IF reduced_count = 2 THEN -80
    ELSE -150

\* in tenths of a point
_calculate_consecutive_big_loss_penalty(history_data) ==
    LET consecutive_losses == count_consecutive_big_losses(history_data, 11)
    IN  IF history_data = <<>> THEN 0
        ELSE IF consecutive_losses = 0 THEN 0
        ELSE LossTier(ReducedCount(history_data, 0, consecutive_losses))

\* TIME_WEIGHTS = [1.0, 0.7, 0.5], in tenths
StreakWeights == <<10, 7, 5>>

StreakPts(race) ==
    LET wm == Get(race, "winner_margin", 0)
        margin == IF wm = 0 THEN Abs(Get(race, "goal_time_diff", 0)) ELSE wm
    IN  IF margin >= 5 THEN 40 ELSE IF margin >= 2 THEN 25 ELSE 15

\* the sum over the leading wins of h, whose first record sits at slot i;
\* in hundredths of a point
RECURSIVE StreakSum(_, _)
StreakSum(h, i) ==
    IF h = <<>> THEN 0
    ELSE IF Get(Head(h), "chakujun", 99) # 1 THEN 0
    ELSE StreakPts(Head(h)) * StreakWeights[i] + StreakSum(Tail(h), i + 1)

\* in tenths of a point
_calculate_winning_streak_bonus(history_data) ==
    IF history_data = <<>> THEN 0
    ELSE RoundDiv(Min2(StreakSum(Take(history_data, 3), 1), 1000), 10)

\* [h.last_3f for h in all_horses_results if h.last_3f > 0]
Valid3f(all_horses_results) ==
    SelectSeq(MapLast3f(all_horses_results), LAMBDA x : x > 0)

\* the base bonus of the releases before V7 (5.0 / 2.5 / 1.0)
ShinbaBaseV6(chakujun) ==
    IF chakujun = 1 THEN 50
    ELSE IF chakujun = 2 THEN 25
    ELSE IF chakujun = 3 THEN 10
    ELSE 0

\* base bonus of the debut boost by finish position, in tenths
ShinbaBase(chakujun) ==
    IF chakujun = 1 THEN 30
    ELSE IF chakujun = 2 THEN 15
    ELSE IF chakujun = 3 THEN 5
    ELSE 0

\* a sectional bonus that no winner-time-gap limits
AgariBonusUnlimited(margin) == 20

\* the sectional bonus by winner-time-gap, in tenths
AgariBonus(margin) ==
    IF margin >= 11 THEN 0 ELSE IF margin >= 7 THEN 10 ELSE 20

\* the boost of one debut record, in tenths of a point
ShinbaBoost(first_race) ==
         LET race_name == Get(first_race, "race_name", <<>>)
             chakujun == Get(first_race, "chakujun", 99)
             my_last_3f == Get(first_race, "last_3f", 0)
             all_horses_results == Get(first_race, "all_horses_results", <<>>)
             margin == Abs(Get(first_race, "goal_time_diff", 0))
             valid_3f == Valid3f(all_horses_results)
             n == Len(valid_3f)
             total == SumSeq(valid_3f)
             have_avg == my_last_3f > 0 /\ all_horses_results # <<>> /\ n > 0
             agari == IF have_avg /\ total - my_last_3f * n >= 5 * n
                      THEN AgariBonus(margin) ELSE 0
             position_4c == Get(first_race, "position_4c", 0)
             field_size == Get(first_race, "field_size", 0)
             back == IF position_4c > 0 /\ field_size > 0
                        /\ 2 * position_4c > field_size
                        /\ have_avg /\ my_last_3f * n < total
                        /\ ~(margin >= 11)
                     THEN 15 ELSE 0
         IN  IF ~Contains(race_name, <<"shinba">>) THEN 0
             ELSE ShinbaBase(chakujun) + agari + back

\* a boost that looks at the latest record of a history of any length
ShinbaBoostOfLatest(history_data) ==
    IF history_data = <<>> THEN 0 ELSE ShinbaBoost(history_data[1])

\* in tenths of a point
_calculate_shinba_second_race_boost(history_data) ==
    IF history_data = <<>> \/ Len(history_data) # 1 THEN 0
    ELSE ShinbaBoost(history_data[1])

----------------------------------------------------------------------------
(* RaceScorer: sectional, course-record and late-section scores, flags,    *)
(* src/enhanced_scorer_v7.py:1195-1334 and 1499-1725                       *)

GoalDiff(h) == Get(h, "goal_time_diff", 0)

\* the reference sectional time of one record as a fraction <<sum, count>>.
\* An entry of all_horses_results always carries last_3f and goal_time_diff
\* (the race page parser sets both), so h['goal_time_diff'] is GoalDiff(h).
ReferenceAvg3f(race, race_track_type) ==
    LET distance == Get(race, "dist", 0)
        my_last_3f == Get(race, "last_3f", 0)
        all_horses_results == Get(race, "all_horses_results", <<>>)
        default == <<_get_default_baseline_3f(distance, race_track_type), 1>>
        goal_times == SelectSeq(all_horses_results, LAMBDA h : GoalDiff(h) # 0)
        mine == SelectSeq(all_horses_results, LAMBDA h : Get(h, "last_3f", 0) = my_last_3f)
        valid_3f == Valid3f(all_horses_results)
        whole == IF valid_3f # <<>> THEN <<SumSeq(valid_3f), Len(valid_3f)>> ELSE default
    IN  IF all_horses_results = <<>> THEN default
        ELSE IF goal_times = <<>> THEN default
        ELSE IF mine = <<>> THEN whole
        ELSE LET my_goal_time == GoalDiff(mine[1])
                 nearby == SelectSeq(all_horses_results,
                              LAMBDA h : Abs(GoalDiff(h) - my_goal_time) <= 20
                                         /\ Get(h, "last_3f", 0) > 0)
                 nearby_horses_3f == MapLast3f(nearby)
             IN  IF nearby_horses_3f # <<>>
                 THEN <<SumSeq(nearby_horses_3f), Len(nearby_horses_3f)>>
                 ELSE whole

RaceTrackType(race) ==
    LET t == Get(race, "track_type", "")
    IN  IF t = "" \/ t = "unknown"
        THEN _get_track_type_by_distance(Get(race, "dist", 0),
                 Get(race, "race_name", <<>>), Get(race, "course", ""))
        ELSE t

\* points of one record before the reliability scaling, in tenths
Last3fPoints(race) ==
    LET distance == Get(race, "dist", 0)
        my_last_3f == Get(race, "last_3f", 0)
        avg == ReferenceAvg3f(race, RaceTrackType(race))
        num == avg[1] - my_last_3f * avg[2]     \* speed_diff * count
        den == avg[2]
        chakujun == Get(race, "chakujun", 99)
        base_points ==
            IF distance <= 1400
            THEN IF num >= 13 * den THEN 150
                 ELSE IF num >= 8 * den THEN 120
                 ELSE IF num >= 4 * den THEN 80
                 ELSE IF num >= 0 THEN 50
                 ELSE -30
            ELSE IF num >= 15 * den THEN 150
                 ELSE IF num >= 10 * den THEN 120
                 ELSE IF num >= 5 * den THEN 80
                 ELSE IF num >= 0 THEN 50
                 ELSE -30
        grade == detect_race_grade(Get(race, "race_name", <<>>))[1]
        finish_bonus ==
            IF grade \in {"G1", "G2", "G3"}
            THEN IF chakujun = 1 THEN 30
                 ELSE IF chakujun \in {2, 3} THEN 20
                 ELSE IF chakujun \in {4, 5} THEN 15
                 ELSE 0
            ELSE IF chakujun = 1 THEN 30
                 ELSE IF chakujun = 2 THEN 20
                 ELSE IF chakujun = 3 THEN 10
                 ELSE 0
    IN  IF num > 0 /\ finish_bonus > 0 THEN base_points + finish_bonus * 5
        ELSE IF num > 0 THEN base_points \div 2
        ELSE IF finish_bonus > 0 THEN finish_bonus * 3
        ELSE -30

\* reliability = grade coefficient x (0.4 if regional) x (0.3 if the surface
\* differs), in units of 1/10000
Last3fReliability(race, target_track_type) ==
    LET race_name == Get(race, "race_name", <<>>)
        base_reliability == detect_race_grade(race_name)[2]
        is_local == _is_local_race(race_name, Get(race, "course", ""))
        track_type_mismatch == RaceTrackType(race) # target_track_type
    IN  base_reliability * (IF is_local THEN 4 ELSE 10)
                         * (IF track_type_mismatch THEN 3 ELSE 10)

\* in tenths of a point
calculate_last_3f_relative_score(history_data, target_track_type) ==
    LET h == Take(history_data, 5)
        used == {i \in 1 .. Len(h) :
                    /\ ~NonFinisher(h[i])
                    /\ ~(Get(h[i], "dist", 0) <= 0 \/ Get(h[i], "last_3f", 0) <= 0)}
        score == SumOver([i \in used |->
                    Last3fPoints(h[i]) * Last3fReliability(h[i], target_track_type)
                        * TimeDecay(i)], used)
    IN  RoundDiv(score, 1000000)

\* TIME_WEIGHTS = [1.0, 0.7, 0.5, 0.4, 0.3], in tenths
CourseRecordWeights == <<10, 7, 5, 4, 3>>

\* goal_sec of a record, with the fallback through the winner's time
GoalSec(race) ==
    LET goal_sec == Get(race, "goal_sec", 0)
        all_results == Get(race, "all_horses_results", <<>>)
        winners == SelectSeq(all_results,
                       LAMBDA h : "chakujun" \in DOMAIN h /\ h.chakujun = 1)
        first_sec == IF winners = <<>> THEN 0 ELSE Get(winners[1], "goal_sec", 0)
    IN  IF goal_sec > 0 THEN goal_sec
        ELSE IF first_sec > 0
             THEN IF "goal_time_diff" \in DOMAIN race
                  THEN first_sec + Abs(race.goal_time_diff)
                  ELSE IF Get(race, "chakujun", 99) = 1 THEN first_sec ELSE goal_sec
             ELSE goal_sec

\* the course record of the course and distance the record was run at
RaceCourseRecord(race) ==
    LET race_course == Get(race, "course", "")
        race_dist == Get(race, "dist", 0)
        race_variant == detect_track_variant(race_course, race_dist, Get(race, "dist_text", ""))
        cr == CourseRecord(race_variant, race_dist)
    IN  IF cr <= 0 THEN CourseRecord(race_course, race_dist) ELSE cr

\* the records the course-record score evaluates
CourseRecordEvaluated(race, target_distance, target_track_type) ==
    /\ ~NonFinisher(race)
    /\ Get(race, "track_type", "") = target_track_type
    /\ Abs(Get(race, "dist", 0) - target_distance) <= 200
    /\ GoalSec(race) > 0
    /\ RaceCourseRecord(race) > 0

\* a scale that takes 2.5 points per second from the first second on
CourseRecordPtsSteep(diff) ==
    IF diff <= 0 THEN 1000
    ELSE IF diff <= 40 THEN 1000 - diff * 25
    ELSE 0

\* points for a gap of diff tenths of a second, in hundredths of a point
CourseRecordPts(diff) ==
    IF diff <= 0 THEN 1000
    ELSE IF diff <= 10 THEN 1000 - diff * 20
    ELSE IF diff <= 20 THEN 800 - (diff - 10) * 20
    ELSE IF diff <= 40 THEN 600 - (diff - 20) * 25
    ELSE 0

\* dist_penalty, in tenths
DistPenalty(dist_diff) == IF dist_diff = 200 THEN 8 ELSE 10

\* a bonus that is summed and never capped
CourseRecordUncapped(bonus) == bonus

\* min(bonus, 10.0), in thousandths of a tenth of a point
CourseRecordCap(bonus) == Min2(bonus, 100000)

\* in tenths of a point
_calculate_course_record_score(history_data, target_course, target_distance, target_track_type) ==
    LET h == Take(history_data, 5)
        used == {i \in 1 .. Len(h) :
                    CourseRecordEvaluated(h[i], target_distance, target_track_type)}
        bonus == SumOver([i \in used |->
                    CourseRecordPts(GoalSec(h[i]) - RaceCourseRecord(h[i]))
                      * CourseRecordWeights[i]
                      * DistPenalty(Abs(Get(h[i], "dist", 0) - target_distance))], used)
    IN  IF history_data = <<>> \/ target_track_type = "dirt" THEN 0
        ELSE IF used = {} THEN 0
        ELSE RoundDiv(CourseRecordCap(bonus), 1000)

\* late_4f of one record in thirtieths of a second: the lap figure when
\* present, else last_3f * 4/3 + 0.4; 0 when neither is known
Late4f(race) ==
    LET late_4f == Get(race, "late_4f", 0)
        last_3f == Get(race, "last_3f", 0)
    IN  IF late_4f > 0 THEN 3 * late_4f
        ELSE IF last_3f <= 0 THEN 0
        ELSE 4 * last_3f + 12

\* the graduated multiplier, in twentieths, for a deviation in thirtieths
Late4fMultiplier(diff_from_baseline) ==
    IF diff_from_baseline >= 105 THEN 36
    ELSE IF diff_from_baseline >= 75 THEN 30
    ELSE IF diff_from_baseline >= 45 THEN 26
    ELSE IF diff_from_baseline >= 21 THEN 23
    ELSE IF diff_from_baseline >= -15 THEN 20
    ELSE IF diff_from_baseline >= -60 THEN 17
    ELSE 13

\* reliability_map.get(grade, 0.7), in twentieths
Late4fReliability(grade) ==
    CASE grade = "G1" -> 20
      [] grade = "G2" -> 19
      [] grade = "G3" -> 18
      [] grade = "OP" -> 17
      [] OTHER -> 14

\* in twentieths
Late4fFinishBonus(chakujun) ==
    IF chakujun = 1 THEN 20
    ELSE IF chakujun <= 3 THEN 18
    ELSE IF chakujun <= 5 THEN 15
    ELSE IF chakujun <= 10 THEN 10
    ELSE 6

Late4fEvaluated(race) ==
    /\ RaceTrackType(race) = "turf"
    /\ Get(race, "dist", 0) >= 1800
    /\ ~_is_local_race(Get(race, "race_name", <<>>), Get(race, "course", ""))
    /\ Late4f(race) > 0

\* in tenths of a point; one race contributes
\* diff * 10 * multiplier * reliability * time_decay * finish_bonus
_calculate_late_4f_score(history_data, target_distance, target_track_type) ==
    LET BASELINE_4F == IF target_distance <= 2000 THEN 472
                       ELSE IF target_distance <= 2400 THEN 478 ELSE 483
        h == Take(history_data, 5)
        used == {i \in 1 .. Len(h) : Late4fEvaluated(h[i])}
        diff(i) == 3 * BASELINE_4F - Late4f(h[i])
        score == SumOver([i \in used |->
                    diff(i) * Late4fMultiplier(diff(i))
                      * Late4fReliability(detect_race_grade(Get(h[i], "race_name", <<>>))[1])
                      * (TimeDecay(i) \div 5)
                      * Late4fFinishBonus(Get(h[i], "chakujun", 99))], used)
    IN  IF target_track_type # "turf" \/ target_distance < 1800 THEN 0
        ELSE RoundDiv(score, 48000)

\* flags raised by the count of regional records alone
DangerFlagsByCountOnly(history_data) ==
    LET recent_races == Take(history_data, 5)
        local_count == Cardinality({i \in 1 .. Len(recent_races) :
                           _is_local_race(Get(recent_races[i], "race_name", <<>>),
                                          Get(recent_races[i], "course", ""))})
    IN  [local_to_jra |-> local_count >= 4, track_change |-> FALSE, long_layoff |-> FALSE]

_check_danger_flags(history_data) ==
    LET recent_races == Take(history_data, 5)
        is_local(race) == _is_local_race(Get(race, "race_name", <<>>), Get(race, "course", ""))
        local_count == Cardinality({i \in 1 .. Len(recent_races) : is_local(recent_races[i])})
    IN  [local_to_jra |-> /\ history_data # <<>>
                          /\ local_count >= 4
                          /\ is_local(history_data[1]),
         track_change |-> FALSE,
         long_layoff |-> FALSE]

----------------------------------------------------------------------------
(* RaceScorer.calculate_total_score, src/enhanced_scorer_v7.py:1336-1467 *)

\* style_bonus = raw_bonus * confidence * style_weight in units of 1/200000
\* point; confidence is in hundredths and a multiple of 0.05
StyleBonus(c) ==
    IF "running_style_info" \in DOMAIN c /\ "race_pace_prediction" \in DOMAIN c
    THEN LET style == Get(c.running_style_info, "style", "")
             confidence == Get(c.running_style_info, "confidence", 0)
             pace == Get(c.race_pace_prediction, "pace", "middle")
             raw_bonus == calculate_style_match_bonus(style, pace, c.target_course, c.target_distance)
             style_weight == get_style_weight(c.target_course, c.target_distance, style)
         IN  raw_bonus * (confidence \div 5) * style_weight
    ELSE 0

\* the normalised components min(x / max * 100, 100), in units of 1/120000;
\* components are in tenths of a point and style in 1/200000 point
Normalized(s) ==
    [normalized_3f |-> Min2(s.last_3f_score, 1500) * 8000,
     normalized_distance |-> Min2(s.distance_score, 150) * 80000,
     normalized_course |-> Min2(s.course_score, 150) * 80000,
     normalized_style |-> Min2(s.style_fine, 4000000) * 3,
     normalized_late_4f |-> IF s.late_4f_score # 0
                            THEN Min2(s.late_4f_score, 500) * 24000 ELSE 0]

\* the weighted sum of the normalised components plus the unnormalised
\* terms, in units of 1/2400000 point; a weight w is the factor 20 * w
WeightedTotal(c, s) ==
    LET is_long_distance == c.target_distance >= 1800 /\ c.target_track_type = "turf"
        extras == s.weight_penalty + s.layoff_penalty + s.grade_race_bonus
                  + s.shinba_boost + s.consecutive_loss_penalty
                  + s.winning_streak_bonus + s.cr_score + s.danger_penalty
    IN  IF is_long_distance
        THEN Normalized(s).normalized_3f * 6
             + Normalized(s).normalized_late_4f * 4
             + Normalized(s).normalized_distance * 3
             + Normalized(s).normalized_course * 2
             + Normalized(s).normalized_style * 3
             + extras * 240000
        ELSE Normalized(s).normalized_3f * 9
             + Normalized(s).normalized_distance * 4
             + Normalized(s).normalized_course * 3
             + Normalized(s).normalized_style * 4
             + extras * 240000

SubScores(c, history_data, now) ==
    LET flags == _check_danger_flags(history_data)
    IN  [last_3f_score |-> calculate_last_3f_relative_score(history_data, c.target_track_type),
         distance_score |-> _calculate_distance_score(history_data, c.target_distance),
         course_score |-> _calculate_course_score(history_data, c.target_course, c.target_track_type),
         weight_penalty |-> _calculate_weight_penalty(c.current_weight, c),
         late_4f_score |-> _calculate_late_4f_score(history_data, c.target_distance, c.target_track_type),
         layoff_penalty |-> _calculate_layoff_penalty(history_data, now),
         grade_race_bonus |-> _calculate_grade_race_bonus(history_data),
         shinba_boost |-> _calculate_shinba_second_race_boost(history_data),
         consecutive_loss_penalty |-> _calculate_consecutive_big_loss_penalty(history_data),
         winning_streak_bonus |-> _calculate_winning_streak_bonus(history_data),
         cr_score |-> _calculate_course_record_score(history_data, c.target_course,
                          c.target_distance, c.target_track_type),
         style_fine |-> StyleBonus(c),
         danger_flags |-> flags,
         danger_penalty |-> IF flags.local_to_jra THEN -150 ELSE 0]

\* the returned breakdown; every value in tenths of a point
Breakdown(c, s) ==
    [total_score |-> RoundDiv(WeightedTotal(c, s), 240000),
     last_3f_score |-> s.last_3f_score,
     distance_score |-> s.distance_score,
     course_score |-> s.course_score,
     style_bonus |-> RoundDiv(s.style_fine, 20000),
     late_4f_score |-> s.late_4f_score,
     weight_penalty |-> s.weight_penalty,
     layoff_penalty |-> s.layoff_penalty,
     grade_race_bonus |-> s.grade_race_bonus,
     shinba_boost |-> s.shinba_boost,
     consecutive_loss_penalty |-> s.consecutive_loss_penalty,
     winning_streak_bonus |-> s.winning_streak_bonus,
     cr_score |-> s.cr_score,
     danger_penalty |-> s.danger_penalty,
     danger_flags |-> s.danger_flags]

\* each component is computed once and the breakdown is built from the
\* computed values
calculate_total_score(c, history_data, now) ==
    CHOOSE breakdown \in {Breakdown(c, s) : s \in {SubScores(c, history_data, now)}} : TRUE

----------------------------------------------------------------------------
(* The inputs.  A record carries the keys the history parser writes        *)
(* (src/scraper_v5.py:898-920) or, like the hand-written histories of the  *)
(* demo (src/enhanced_scorer_v7.py:2186-2204), some of them; a context     *)
(* carries the arguments of calculate_total_score                          *)
(* (src/scraper_v5.py:567-577), an argument left at None being a field the *)
(* context does not have.  gap is the number of days between a start and   *)
(* the one before it; the engine does not read it.                         *)

LossMile ==
    [race_name |-> <<"sho1">>, course |-> "Tokyo", dist |-> 1600,
     track_type |-> "turf", chakujun |-> 12, last_3f |-> 355, goal_time_diff |-> 15,
     position_4c |-> 9, field_size |-> 16, gap |-> 30]

LossFar ==
    [race_name |-> <<"sho1">>, course |-> "Hanshin", dist |-> 2200,
     track_type |-> "turf", chakujun |-> 11, last_3f |-> 365, goal_time_diff |-> 13,
     position_4c |-> 4, field_size |-> 14, gap |-> 30]

LossLayoff ==
    [race_name |-> <<"sho1">>, course |-> "Tokyo", dist |-> 1600,
     track_type |-> "turf", chakujun |-> 13, last_3f |-> 360, goal_time_diff |-> 16,
     position_4c |-> 12, field_size |-> 16, gap |-> 150]

Placed ==
    [race_name |-> <<"mishori">>, course |-> "Tokyo", dist |-> 1600,
     track_type |-> "turf", chakujun |-> 3, last_3f |-> 340, goal_time_diff |-> 3,
     position_4c |-> 5, field_size |-> 16, gap |-> 30]

Stopped ==
    [race_name |-> <<"sho1">>, course |-> "Nakayama", dist |-> 1800,
     track_type |-> "turf", chakujun |-> 0, last_3f |-> 0, position_4c |-> 0,
     field_size |-> 16, gap |-> 30]

DebutWin ==
    [race_name |-> <<"shinba">>, course |-> "Tokyo", dist |-> 1600,
     track_type |-> "turf", chakujun |-> 1, last_3f |-> 335, goal_time_diff |-> 0,
     position_4c |-> 12, field_size |-> 16, gap |-> 30,
     all_horses_results |-> <<[chakujun |-> 1, last_3f |-> 335, goal_sec |-> 950, goal_time_diff |-> 0], [chakujun |-> 2, last_3f |-> 340, goal_sec |-> 952, goal_time_diff |-> 2], [chakujun |-> 3, last_3f |-> 345, goal_sec |-> 955, goal_time_diff |-> 5], [chakujun |-> 4, last_3f |-> 350, goal_sec |-> 958, goal_time_diff |-> 8]>>]

DebutFifth ==
    [race_name |-> <<"shinba">>, course |-> "Tokyo", dist |-> 1600,
     track_type |-> "turf", chakujun |-> 5, last_3f |-> 335, goal_time_diff |-> 8,
     position_4c |-> 10, field_size |-> 16, gap |-> 30,
     all_horses_results |-> <<[chakujun |-> 1, last_3f |-> 338, goal_sec |-> 950, goal_time_diff |-> 0], [chakujun |-> 2, last_3f |-> 342, goal_sec |-> 953, goal_time_diff |-> 3], [chakujun |-> 5, last_3f |-> 335, goal_sec |-> 958, goal_time_diff |-> 8], [chakujun |-> 6, last_3f |-> 352, goal_sec |-> 960, goal_time_diff |-> 10], [chakujun |-> 7, last_3f |-> 355, goal_sec |-> 962, goal_time_diff |-> 12]>>]

Maiden ==
    [race_name |-> <<"mishori">>, course |-> "Tokyo", dist |-> 1600,
     track_type |-> "turf", chakujun |-> 3, last_3f |-> 338, position_4c |-> 6,
     field_size |-> 16, gap |-> 30]

DebutSecond ==
    [race_name |-> <<"shinba">>, course |-> "Nakayama", dist |-> 1600,
     track_type |-> "turf", chakujun |-> 2, last_3f |-> 348, goal_time_diff |-> 3,
     position_4c |-> 7, field_size |-> 16, gap |-> 30,
     all_horses_results |-> <<[chakujun |-> 1, last_3f |-> 345, goal_sec |-> 960, goal_time_diff |-> 0], [chakujun |-> 2, last_3f |-> 348, goal_sec |-> 963, goal_time_diff |-> 3], [chakujun |-> 3, last_3f |-> 355, goal_sec |-> 968, goal_time_diff |-> 8], [chakujun |-> 4, last_3f |-> 358, goal_sec |-> 970, goal_time_diff |-> 10]>>]

DebutRouted ==
    [race_name |-> <<"shinba">>, course |-> "Kyoto", dist |-> 1800,
     track_type |-> "turf", chakujun |-> 9, last_3f |-> 340, goal_time_diff |-> 12,
     position_4c |-> 13, field_size |-> 14, gap |-> 30,
     all_horses_results |-> <<[chakujun |-> 1, last_3f |-> 350, goal_sec |-> 1090, goal_time_diff |-> 0], [chakujun |-> 2, last_3f |-> 352, goal_sec |-> 1093, goal_time_diff |-> 3], [chakujun |-> 9, last_3f |-> 340, goal_sec |-> 1102, goal_time_diff |-> 12], [chakujun |-> 10, last_3f |-> 358, goal_sec |-> 1105, goal_time_diff |-> 15]>>]

DebutThird ==
    [race_name |-> <<"shinba">>, course |-> "Kyoto", dist |-> 1800,
     track_type |-> "turf", chakujun |-> 3, last_3f |-> 352, goal_time_diff |-> 4,
     position_4c |-> 8, field_size |-> 14, gap |-> 30,
     all_horses_results |-> <<[chakujun |-> 1, last_3f |-> 348, goal_sec |-> 1090, goal_time_diff |-> 0], [chakujun |-> 2, last_3f |-> 350, goal_sec |-> 1092, goal_time_diff |-> 2], [chakujun |-> 3, last_3f |-> 352, goal_sec |-> 1094, goal_time_diff |-> 4], [chakujun |-> 4, last_3f |-> 353, goal_sec |-> 1095, goal_time_diff |-> 5]>>]

MileRun ==
    [race_name |-> <<"sho2">>, course |-> "Tokyo", dist |-> 1600,
     track_type |-> "turf", chakujun |-> 2, last_3f |-> 342, goal_time_diff |-> 2,
     goal_sec |-> 915, position_4c |-> 6, field_size |-> 16, gap |-> 30]

NakayamaRun ==
    [race_name |-> <<"sho2">>, course |-> "Nakayama", dist |-> 1600,
     track_type |-> "turf", chakujun |-> 4, last_3f |-> 350, goal_time_diff |-> 5,
     goal_sec |-> 927, position_4c |-> 3, field_size |-> 16, gap |-> 30]

Untimed ==
    [race_name |-> <<"sho2">>, course |-> "Tokyo", dist |-> 1600,
     track_type |-> "turf", chakujun |-> 6, last_3f |-> 348, goal_time_diff |-> 7,
     position_4c |-> 8, field_size |-> 16, gap |-> 30]

HanshinRun ==
    [race_name |-> <<"sho3">>, course |-> "Hanshin", dist |-> 1600,
     track_type |-> "turf", chakujun |-> 1, last_3f |-> 338, goal_time_diff |-> 0,
     winner_margin |-> 3, position_4c |-> 2, field_size |-> 12, gap |-> 30,
     all_horses_results |-> <<[chakujun |-> 1, last_3f |-> 338, goal_sec |-> 923, goal_time_diff |-> 0], [chakujun |-> 2, last_3f |-> 340, goal_sec |-> 926, goal_time_diff |-> 3], [chakujun |-> 3, last_3f |-> 346, goal_sec |-> 930, goal_time_diff |-> 7]>>]

StayerRun ==
    [race_name |-> <<"sho3">>, course |-> "Tokyo", dist |-> 2400,
     track_type |-> "turf", chakujun |-> 3, last_3f |-> 345, late_4f |-> 466,
     goal_time_diff |-> 4, goal_sec |-> 1432, position_4c |-> 7, field_size |-> 12,
     gap |-> 30]

Scratched ==
    [race_name |-> <<"sho3">>, course |-> "Tokyo", dist |-> 1600,
     track_type |-> "turf", chakujun |-> 99, last_3f |-> 340, goal_sec |-> 915,
     position_4c |-> 5, field_size |-> 16, gap |-> 30]

G1Win ==
    [race_name |-> <<"G", "I">>, course |-> "Tokyo", dist |-> 2400,
     track_type |-> "turf", chakujun |-> 1, last_3f |-> 338, late_4f |-> 460,
     goal_time_diff |-> 0, winner_margin |-> 5, goal_sec |-> 1422, position_4c |-> 4,
     field_size |-> 18, gap |-> 30,
     all_horses_results |-> <<[chakujun |-> 1, last_3f |-> 338, goal_sec |-> 1422, goal_time_diff |-> 0], [chakujun |-> 2, last_3f |-> 342, goal_sec |-> 1427, goal_time_diff |-> 5], [chakujun |-> 3, last_3f |-> 345, goal_sec |-> 1430, goal_time_diff |-> 8]>>]

OiRun ==
    [race_name |-> <<"C", "1">>, course |-> "Oi", dist |-> 1600,
     track_type |-> "dirt", chakujun |-> 2, last_3f |-> 380, goal_time_diff |-> 2,
     position_4c |-> 3, field_size |-> 12, gap |-> 30]

ExchangeWin ==
    [race_name |-> <<"J", "p", "n", "I">>, course |-> "Kawasaki", dist |-> 2100,
     track_type |-> "dirt", chakujun |-> 1, last_3f |-> 375, goal_time_diff |-> 0,
     winner_margin |-> 2, position_4c |-> 2, field_size |-> 14, gap |-> 30]

OiGraded ==
    [race_name |-> <<"G", "I">>, course |-> "Oi", dist |-> 2000,
     track_type |-> "dirt", chakujun |-> 2, last_3f |-> 372, goal_time_diff |-> 3,
     position_4c |-> 5, field_size |-> 16, gap |-> 30]

G3Run ==
    [race_name |-> <<"G", "I", "I", "I">>, course |-> "Nakayama", dist |-> 1800,
     track_type |-> "turf", chakujun |-> 3, last_3f |-> 346, goal_time_diff |-> 4,
     position_4c |-> 6, field_size |-> 16, gap |-> 30]

G2Run ==
    [race_name |-> <<"G", "I", "I">>, course |-> "Tokyo", dist |-> 2400,
     track_type |-> "turf", chakujun |-> 5, last_3f |-> 342, goal_time_diff |-> 6,
     position_4c |-> 8, field_size |-> 14, gap |-> 30]

ExchangeThird ==
    [race_name |-> <<"J", "p", "n", "I", "I", "I">>, course |-> "Kawasaki",
     dist |-> 1600, track_type |-> "dirt", chakujun |-> 1, last_3f |-> 378,
     goal_time_diff |-> 0, winner_margin |-> 3, position_4c |-> 2, field_size |-> 12,
     gap |-> 30]

ExchangeSecond ==
    [race_name |-> <<"J", "p", "n", "I", "I">>, course |-> "Oi", dist |-> 1800,
     track_type |-> "dirt", chakujun |-> 4, last_3f |-> 381, goal_time_diff |-> 8,
     position_4c |-> 4, field_size |-> 13, gap |-> 30]

Unlabelled ==
    [race_name |-> <<>>, course |-> "Tokyo", dist |-> 1800, track_type |-> "turf",
     chakujun |-> 7, last_3f |-> 351, goal_time_diff |-> 9, position_4c |-> 10,
     field_size |-> 16, gap |-> 30]

PoolLossDistance == {LossMile, LossFar, Placed}

PoolLossRest == {LossMile, LossLayoff, Stopped}

PoolDebut == {DebutWin, DebutFifth, Maiden}

PoolDebutMargin == {DebutSecond, DebutRouted, DebutThird}

PoolRecordRuns == {MileRun, NakayamaRun, Untimed}

PoolRecordMixed == {HanshinRun, StayerRun, Scratched}

PoolClass == {G1Win, OiRun, ExchangeWin}

PoolGraded == {OiGraded, G3Run, G2Run}

PoolExchange == {ExchangeThird, ExchangeSecond, Unlabelled}

CtxMile ==
    [current_weight |-> 540, target_course |-> "Tokyo", target_distance |-> 1600,
     target_track_type |-> "turf",
     running_style_info |-> [style |-> "sashi", confidence |-> 75],
     race_pace_prediction |-> [pace |-> "middle"]]

CtxMileRival ==
    [current_weight |-> 560, target_course |-> "Tokyo", target_distance |-> 1600,
     target_track_type |-> "turf",
     running_style_info |-> [style |-> "nige", confidence |-> 80],
     race_pace_prediction |-> [pace |-> "middle"], horse_age |-> 5,
     horse_sex |-> "hin"]

CtxMilePlain ==
    [current_weight |-> 580, target_course |-> "Tokyo", target_distance |-> 1600,
     target_track_type |-> "turf", horse_age |-> 4, horse_sex |-> "bo"]

CtxStayer ==
    [current_weight |-> 560, target_course |-> "Tokyo", target_distance |-> 2400,
     target_track_type |-> "turf",
     running_style_info |-> [style |-> "senko", confidence |-> 85],
     race_pace_prediction |-> [pace |-> "slow"], horse_age |-> 3, horse_sex |-> "hin"]

CtxDirt ==
    [current_weight |-> 570, target_course |-> "Nakayama", target_distance |-> 1800,
     target_track_type |-> "dirt",
     running_style_info |-> [style |-> "nige", confidence |-> 90],
     race_pace_prediction |-> [pace |-> "high"], horse_age |-> 5, horse_sex |-> "sen"]

CtxSapporo ==
    [current_weight |-> 550, target_course |-> "Sapporo", target_distance |-> 1500,
     target_track_type |-> "turf",
     running_style_info |-> [style |-> "senko", confidence |-> 85],
     race_pace_prediction |-> [pace |-> "middle"], horse_age |-> 4,
     horse_sex |-> "bo"]

CtxOi ==
    [current_weight |-> 560, target_course |-> "Oi", target_distance |-> 1600,
     target_track_type |-> "dirt",
     running_style_info |-> [style |-> "sashi", confidence |-> 80],
     race_pace_prediction |-> [pace |-> "high"], horse_age |-> 5, horse_sex |-> "bo"]

CtxNoImpost ==
    [current_weight |-> 0, target_course |-> "Kyoto", target_distance |-> 1800,
     target_track_type |-> "turf"]

\* <<pool, context, days from the most recent start to today>>
Scenarios ==
    {<<PoolLossDistance, CtxMile, 30>>,
     <<PoolLossDistance, CtxDirt, 30>>,
     <<PoolLossRest, CtxMile, 30>>,
     <<PoolLossRest, CtxStayer, 200>>,
     <<PoolDebut, CtxMile, 30>>,
     <<PoolDebut, CtxNoImpost, 30>>,
     <<PoolDebutMargin, CtxMilePlain, 30>>,
     <<PoolDebutMargin, CtxStayer, 30>>,
     <<PoolRecordRuns, CtxMilePlain, 30>>,
     <<PoolRecordRuns, CtxMile, 130>>,
     <<PoolRecordMixed, CtxMilePlain, 30>>,
     <<PoolRecordMixed, CtxStayer, 30>>,
     <<PoolClass, CtxStayer, 30>>,
     <<PoolClass, CtxDirt, 400>>,
     <<PoolGraded, CtxDirt, 30>>,
     <<PoolExchange, CtxStayer, 30>>,
     <<PoolRecordRuns, CtxSapporo, 30>>,
     <<PoolClass, CtxOi, 30>>}

----------------------------------------------------------------------------
(* The formatters.  A rendered text is the sequence of its component lines, *)
(* each the key of the breakdown it prints and the value printed (tenths);  *)
(* an uncaught exception is the outcome named after it.                     *)

Line(label, value) == [label |-> label, value |-> value]

Returned(lines) == [outcome |-> "returned", lines |-> lines]

Raised(exception) == [outcome |-> exception, lines |-> <<>>]

Pending == [outcome |-> "pending", lines |-> <<>>]

\* lines.append(...) under a condition
When(cond, line) == IF cond THEN <<line>> ELSE <<>>

\* src/enhanced_scorer_v7.py:1727-1832.  The branch crs > 0 iterates over
\* history_data, which is neither a parameter nor a local nor a global of
\* the module: the lookup raises NameError before any detail line is built.
format_score_breakdown(res, target_distance) ==
    LET head ==
               <<Line("total_score", res.total_score),
                 Line("last_3f_score", res.last_3f_score)>>
            \o When(target_distance >= 1800 /\ res.late_4f_score # 0,
                    Line("late_4f_score", res.late_4f_score))
            \o <<Line("distance_score", res.distance_score),
                 Line("course_score", res.course_score),
                 Line("style_bonus", res.style_bonus)>>
            \o When(res.weight_penalty # 0,
                    Line("weight_penalty", res.weight_penalty))
            \o <<Line("layoff_penalty", res.layoff_penalty)>>
            \o When(res.grade_race_bonus # 0,
                    Line("grade_race_bonus", res.grade_race_bonus))
            \o When(Get(res, "shinba_boost", 0) # 0,
                    Line("shinba_boost", Get(res, "shinba_boost", 0)))
            \o When(Get(res, "winning_streak_bonus", 0) > 0,
                    Line("winning_streak_bonus", Get(res, "winning_streak_bonus", 0)))
        crs == Get(res, "cr_score", 0)
        tail ==
               <<Line("consecutive_loss_penalty", Get(res, "consecutive_loss_penalty", 0))>>
            \o When(res.danger_penalty # 0,
                    Line("danger_penalty", res.danger_penalty))
    IN  IF crs > 0 THEN Raised("NameError")
        ELSE Returned(head
                      \o When("cr_score" \in DOMAIN res, Line("cr_score", 0))
                      \o tail)

\* The re-count of the verbose text, src/enhanced_scorer_v7.py:2120-2156:
\* every one of the consec losses is tested, none ends the loop.
VerboseReducedCount(history_data, consec) ==
    Cardinality({i \in 0 .. (consec - 1) :
                    ~_should_reduce_big_loss_penalty(history_data, i)})

\* src/enhanced_scorer_v7.py:1834-2167
format_score_breakdown_verbose(res, c, history_data) ==
    LET consec == count_consecutive_big_losses(history_data, 11)
    IN  Returned(
               <<Line("total_score", res.total_score),
                 Line("last_3f_score", res.last_3f_score)>>
            \o When(c.target_distance >= 1800,
                    Line("late_4f_score", res.late_4f_score))
            \o <<Line("distance_score", res.distance_score),
                 Line("course_score", res.course_score),
                 Line("style_bonus", res.style_bonus),
                 Line("weight_penalty", res.weight_penalty),
                 Line("layoff_penalty", res.layoff_penalty),
                 Line("grade_race_bonus", res.grade_race_bonus),
                 Line("shinba_boost", Get(res, "shinba_boost", 0)),
                 Line("consecutive_loss_penalty", Get(res, "consecutive_loss_penalty", 0))>>
            \o When(history_data # <<>> /\ consec > 0,
                    Line("recount", LossTier(VerboseReducedCount(history_data, consec))))
            \o When(res.danger_penalty # 0,
                    Line("danger_penalty", res.danger_penalty)))
----------------------------------------------------------------------------
(* NetkeibaRaceScraper, src/scraper_v5.py: the history cache of the        *)
(* session and the running style of a history                              *)

\* str.lower() on the letters of the names
LowerCase ==
    [A |-> "a", B |-> "b", C |-> "c", D |-> "d", E |-> "e", F |-> "f", G |-> "g",
     H |-> "h", I |-> "i", J |-> "j", K |-> "k", L |-> "l", M |-> "m", N |-> "n",
     O |-> "o", P |-> "p", Q |-> "q", R |-> "r", S |-> "s", T |-> "t", U |-> "u",
     V |-> "v", W |-> "w", X |-> "x", Y |-> "y", Z |-> "z"]

\* the characters \s matches
Whitespace == {" ", "\t", "\n"}

\* re.sub(r'\s+', '', horse_name).lower(); a name is a sequence of characters
RECURSIVE _get_cache_key_by_name(_)
_get_cache_key_by_name(horse_name) ==
    IF horse_name = <<>> THEN <<>>
    ELSE LET ch == Head(horse_name)
             rest == _get_cache_key_by_name(Tail(horse_name))
         IN  IF ch \in Whitespace THEN rest
             ELSE IF ch \in DOMAIN LowerCase THEN <<LowerCase[ch]>> \o rest
             ELSE <<ch>> \o rest

\* the store after _save_to_cache(horse_name, data)
_save_to_cache(store, horse_name, data) ==
    (_get_cache_key_by_name(horse_name) :> data) @@ store

\* a lookup that stores whatever the fetch returned
HistoryCachedStoringEmpty(store, hits, fetches, horse_id, horse_name, site) ==
    LET cache_key == _get_cache_key_by_name(horse_name)
    IN  IF cache_key \in DOMAIN store
        THEN [history |-> store[cache_key], fetched |-> FALSE, store |-> store,
              cache_hits |-> hits + 1, api_calls |-> fetches]
        ELSE [history |-> site, fetched |-> TRUE,
              store |-> _save_to_cache(store, horse_name, site),
              cache_hits |-> hits, api_calls |-> fetches + 1]

\* _get_horse_history_cached on the store and the two counters; site is
\* what _get_horse_history(horse_id, ...) returns when it is called: the
\* history parsed from the horse's page, or [] when the page has no result
\* table.  The result holds the returned history and the state after the
\* call.
_get_horse_history_cached(store, hits, fetches, horse_id, horse_name, site) ==
    LET cache_key == _get_cache_key_by_name(horse_name)
    IN  IF cache_key \in DOMAIN store
        THEN [history |-> store[cache_key], fetched |-> FALSE, store |-> store,
              cache_hits |-> hits + 1, api_calls |-> fetches]
        ELSE [history |-> site, fetched |-> TRUE,
              store |-> IF site # <<>> THEN _save_to_cache(store, horse_name, site)
                        ELSE store,
              cache_hits |-> hits, api_calls |-> fetches + 1]

\* the styles of history[:5] that classify_running_style knows
RECURSIVE RaceStyles(_)
RaceStyles(h) ==
    IF h = <<>> THEN <<>>
    ELSE LET race == Head(h)
             corner_pos == IF Get(race, "corner_pos", 0) # 0 THEN race.corner_pos
                           ELSE Get(race, "position_4c", 0)
             field_size == Get(race, "field_size", 16)
             style_info == classify_running_style(corner_pos, field_size,
                               Get(race, "last_3f", 0), Get(race, "race_avg_last_3f", 0))
         IN  IF corner_pos > 0 /\ field_size > 0 /\ style_info.style # "unknown"
             THEN <<style_info>> \o RaceStyles(Tail(h))
             ELSE RaceStyles(Tail(h))

\* Counter(...).most_common(1)[0][0]: the most frequent style, the one
\* met first among equals
MostCommonStyle(styles) ==
    LET count(s) == Cardinality({i \in 1 .. Len(styles) : styles[i].style = s})
        first(s) == CHOOSE i \in 1 .. Len(styles) :
                        /\ styles[i].style = s
                        /\ \A j \in 1 .. (i - 1) : styles[j].style # s
    IN  CHOOSE s \in {styles[i].style : i \in 1 .. Len(styles)} :
            \A o \in {styles[i].style : i \in 1 .. Len(styles)} :
                \/ count(s) > count(o)
                \/ (count(s) = count(o) /\ first(s) <= first(o))

\* None is <<>>
None == <<>>

\* the aggregated style of a history; confidence is the fraction num / den
_extract_running_style_from_history(h) ==
    LET styles == RaceStyles(Take(h, 5))
        most_common_style == MostCommonStyle(styles)
        matching == {i \in 1 .. Len(styles) : styles[i].style = most_common_style}
        total == SumOver([i \in matching |-> styles[i].confidence], matching)
        m == Cardinality(matching)
        n == Len(styles)
        \* avg_confidence * (0.7 + 0.3 * consistency) = num / den
        num == total * (7 * n + 3 * m)
        den == 1000 * m * n
    IN  IF h = <<>> \/ styles = <<>> THEN None
        ELSE [style |-> most_common_style,
              confidence |-> IF 100 * num <= 95 * den
                             THEN [num |-> num, den |-> den]
                             ELSE [num |-> 95, den |-> 100]]

\* the scraper's wrapper around predict_race_pace
_predict_race_pace(horses_running_styles, field_size, course) ==
    LET count(s) == Cardinality({i \in 1 .. Len(horses_running_styles) :
                        Get(horses_running_styles[i], "style", "unknown") = s})
    IN  IF horses_running_styles = <<>> THEN [pace |-> "middle", front_ratio |-> 30]
        ELSE predict_race_pace(horses_running_styles, field_size, course)
             @@ [distribution |-> [nige |-> count("nige"), senko |-> count("senko"),
                                   sashi |-> count("sashi"), oikomi |-> count("oikomi")]]

\* the answer of _get_horse_history_cached before its first call
NoAnswer == [horse_id |-> "", horse_name |-> <<>>, history |-> <<>>, fetched |-> FALSE]

----------------------------------------------------------------------------
(* The state machine *)

\* the longest history assembled
MaxHist == 6

\* the breakdown before the engine has run
NoResult ==
    [total_score |-> 0, last_3f_score |-> 0, distance_score |-> 0, course_score |-> 0,
     style_bonus |-> 0, late_4f_score |-> 0, weight_penalty |-> 0, layoff_penalty |-> 0,
     grade_race_bonus |-> 0, shinba_boost |-> 0, consecutive_loss_penalty |-> 0,
     winning_streak_bonus |-> 0, cr_score |-> 0, danger_penalty |-> 0,
     danger_flags |-> [local_to_jra |-> FALSE]]

\* the day of the start before the oldest one of h; the most recent start
\* is on day 5000
RaceDay(h) ==
    IF h = <<>> THEN 5000
    ELSE h[Len(h)].race_date - h[Len(h)].gap

\* the record the history parser delivers for template r run on day d
Dated(r, d) == ("race_date" :> d) @@ r

\* no session of the scraper is open
SessionIdle ==
    /\ horse_cache_by_name = <<>>
    /\ cache_hits = 0
    /\ api_calls = 0
    /\ calls = 0
    /\ answer = NoAnswer
    /\ card = <<>>
    /\ race_venue = ""
    /\ row_index = 0
    /\ all_running_styles = <<>>
    /\ pace_prediction = None
    /\ phase = "idle"

Init ==
    /\ \E s \in Scenarios :
          /\ pool = s[1]
          /\ ctx = s[2]
          /\ today = 5000 + s[3]
    /\ history = <<>>
    /\ result = NoResult
    /\ text = Pending
    /\ vtext = Pending
    /\ pc = "input"
    /\ SessionIdle

\* the engine has not been called
EngineIdle ==
    /\ pool = {}
    /\ ctx = CtxMile
    /\ today = 5000
    /\ history = <<>>
    /\ result = NoResult
    /\ text = Pending
    /\ vtext = Pending
    /\ pc = "input"

\* one more row of the horse's page, an older start
AddRecord ==
    /\ pc = "input"
    /\ Len(history) < MaxHist
    /\ \E r \in pool : history' = Append(history, Dated(r, RaceDay(history)))
    /\ UNCHANGED <<ctx, pool, today, result, text, vtext, pc>>
    /\ UNCHANGED svars

CalculateTotalScore ==
    /\ pc = "input"
    /\ result' = calculate_total_score(ctx, history, today)
    /\ pc' = "scored"
    /\ UNCHANGED <<history, ctx, pool, today, text, vtext>>
    /\ UNCHANGED svars

FormatScoreBreakdown ==
    /\ pc = "scored"
    /\ text = Pending
    /\ text' = format_score_breakdown(result, ctx.target_distance)
    /\ UNCHANGED <<history, ctx, pool, today, result, vtext, pc>>
    /\ UNCHANGED svars

FormatScoreBreakdownVerbose ==
    /\ pc = "scored"
    /\ vtext = Pending
    /\ vtext' = format_score_breakdown_verbose(result, ctx, history)
    /\ UNCHANGED <<history, ctx, pool, today, result, text, pc>>
    /\ UNCHANGED svars

\* the arguments that get_race_data takes from the race and not from the
\* entrant's row: course, race_distance, track_type and pace_prediction
RaceKeys == {"target_course", "target_distance", "target_track_type", "race_pace_prediction"}

Restrict(r, keys) == [k \in DOMAIN r \cap keys |-> r[k]]

RaceArgs(c) == Restrict(c, RaceKeys)

RowArgs(c) == Restrict(c, DOMAIN c \ RaceKeys)

\* the rows of df: the entrants of the race c belongs to
Field(c) == IF c \in {CtxMile, CtxMileRival} THEN {CtxMile, CtxMileRival} ELSE {c}

\* a loop that predicts the pace again for the next row
NextEntrantRepredicted ==
    /\ pc = "scored"
    /\ vtext # Pending
    /\ \E row \in Field(ctx) \ {ctx} :
          ctx' = RowArgs(row) @@ [race_pace_prediction |-> [pace |-> "high"]] @@ RaceArgs(ctx)
    /\ history' = <<>>
    /\ result' = NoResult
    /\ text' = Pending
    /\ vtext' = Pending
    /\ pc' = "input"
    /\ UNCHANGED <<pool, today>>
    /\ UNCHANGED svars

\* the next iteration of `for index, row in df.iterrows()`: the next
\* entrant is scored for the same race with the pace predicted before the
\* loop
NextEntrant ==
    /\ pc = "scored"
    /\ vtext # Pending
    /\ \E row \in Field(ctx) \ {ctx} : ctx' = RowArgs(row) @@ RaceArgs(ctx)
    /\ history' = <<>>
    /\ result' = NoResult
    /\ text' = Pending
    /\ vtext' = Pending
    /\ pc' = "input"
    /\ UNCHANGED <<pool, today>>
    /\ UNCHANGED svars

Next ==
    \/ AddRecord
    \/ CalculateTotalScore
    \/ FormatScoreBreakdown
    \/ FormatScoreBreakdownVerbose
    \/ NextEntrant

Spec == Init /\ [][Next]_vars
----------------------------------------------------------------------------
(* The session of get_race_data: the style pass, the pace prediction and   *)
(* the history cache                                                       *)

\* the most calls of _get_horse_history_cached between two clear_cache
MaxCalls == 14

\* the history _get_horse_history parses from the rows ts of a page
RECURSIVE Parsed(_, _)
Parsed(h, ts) ==
    IF ts = <<>> THEN h
    ELSE Parsed(Append(h, Dated(Head(ts), RaceDay(h))), Tail(ts))

\* the result pages of the site, by horse_id
Pages ==
    [h1 |-> Parsed(<<>>, <<ExchangeWin>>),
     h2 |-> Parsed(<<>>, <<LossMile>>),
     h3 |-> Parsed(<<>>, <<HanshinRun, NakayamaRun>>),
     h4 |-> Parsed(<<>>, <<G1Win>>),
     h5 |-> Parsed(<<>>, <<ExchangeWin, Stopped>>),
     h6 |-> Parsed(<<>>, <<DebutWin>>),
     h7 |-> Parsed(<<>>, <<Stopped>>)]

\* rows of race cards; two horses whose names differ in case and spacing
Row(horse_id, horse_name) == [horse_id |-> horse_id, horse_name |-> horse_name]

CardFront ==
    <<Row("h1", <<"A", "c", "e">>), Row("h2", <<"a", " ", "c", "E">>),
      Row("h3", <<"B", "o">>), Row("h4", <<"C", "y">>), Row("h5", <<"D", "i">>)>>

CardMixed ==
    <<Row("h6", <<"E", "v">>), Row("h2", <<"a", " ", "c", "E">>), Row("", <<"N", "n">>)>>

CardLate ==
    <<Row("h7", <<"J", "o">>), Row("h1", <<"A", "C", "E", " ">>)>>

Cards == {CardFront, CardMixed, CardLate}

RaceCourses == {"Nakayama", "Kyoto", "Tokyo", "Oi"}

\* the rows of df that have a horse_id
Fetching(df) == Cardinality({i \in 1 .. Len(df) : df[i].horse_id # ""})

\* a session opens on the first race card; the engine is idle
ScraperInit ==
    /\ EngineIdle
    /\ horse_cache_by_name = <<>>
    /\ cache_hits = 0
    /\ api_calls = 0
    /\ calls = 0
    /\ answer = NoAnswer
    /\ card \in Cards
    /\ race_venue \in RaceCourses
    /\ row_index = 0
    /\ all_running_styles = <<>>
    /\ pace_prediction = None
    /\ phase = "styles"

\* one call of _get_horse_history_cached for row r of the card
CallCached(r) ==
    \E site \in {Pages[r.horse_id], <<>>} :
        \E got \in {_get_horse_history_cached(horse_cache_by_name, cache_hits, api_calls,
                                               r.horse_id, r.horse_name, site)} :
            /\ horse_cache_by_name' = got.store
            /\ cache_hits' = got.cache_hits
            /\ api_calls' = got.api_calls
            /\ calls' = calls + 1
            /\ answer' = [horse_id |-> r.horse_id, horse_name |-> r.horse_name,
                          history |-> got.history, fetched |-> got.fetched]

\* one iteration of the first loop of get_race_data: the row's history and
\* its running style
AnalyseStyle ==
    /\ phase = "styles"
    /\ row_index < Len(card)
    /\ row_index' = row_index + 1
    /\ LET r == card[row_index + 1]
       IN  IF r.horse_id # ""
           THEN /\ CallCached(r)
                /\ LET running_style == _extract_running_style_from_history(answer'.history)
                   IN  all_running_styles' =
                           IF running_style # None
                           THEN Append(all_running_styles, running_style)
                           ELSE all_running_styles
           ELSE UNCHANGED <<cvars, all_running_styles>>
    /\ UNCHANGED <<card, race_venue, pace_prediction, phase>>
    /\ UNCHANGED evars

\* pace_prediction = self._predict_race_pace(...) if all_running_styles else None
PredictRacePace ==
    /\ phase = "styles"
    /\ row_index = Len(card)
    /\ pace_prediction' =
           IF all_running_styles # <<>>
           THEN _predict_race_pace(all_running_styles, Len(card), race_venue)
           ELSE None
    /\ phase' = "scoring"
    /\ row_index' = 0
    /\ UNCHANGED <<cvars, card, race_venue, all_running_styles>>
    /\ UNCHANGED evars

\* one iteration of the second loop of get_race_data: the row's history is
\* asked for again and handed to the engine
ScoreRow ==
    /\ phase = "scoring"
    /\ row_index < Len(card)
    /\ row_index' = row_index + 1
    /\ LET r == card[row_index + 1]
       IN  IF r.horse_id # "" THEN CallCached(r) ELSE UNCHANGED cvars
    /\ UNCHANGED <<card, race_venue, all_running_styles, pace_prediction, phase>>
    /\ UNCHANGED evars

\* get_race_data returns
ReturnRace ==
    /\ phase = "scoring"
    /\ row_index = Len(card)
    /\ phase' = "done"
    /\ UNCHANGED <<cvars, card, race_venue, row_index, all_running_styles, pace_prediction>>
    /\ UNCHANGED evars

\* the next call of get_race_data in the session, for a race that is not
\* in the race cache
GetRaceData ==
    /\ phase = "done"
    /\ \E df \in Cards :
          /\ calls + 2 * Fetching(df) <= MaxCalls
          /\ card' = df
    /\ race_venue' \in RaceCourses
    /\ row_index' = 0
    /\ all_running_styles' = <<>>
    /\ pace_prediction' = None
    /\ phase' = "styles"
    /\ UNCHANGED cvars
    /\ UNCHANGED evars

clear_cache ==
    /\ phase = "done"
    /\ horse_cache_by_name' = <<>>
    /\ cache_hits' = 0
    /\ api_calls' = 0
    /\ calls' = 0
    /\ UNCHANGED <<answer, card, race_venue, row_index, all_running_styles, pace_prediction, phase>>
    /\ UNCHANGED evars

ScraperNext ==
    \/ AnalyseStyle
    \/ PredictRacePace
    \/ ScoreRow
    \/ ReturnRace
    \/ GetRaceData
    \/ clear_cache

ScraperSpec == ScraperInit /\ [][ScraperNext]_vars

----------------------------------------------------------------------------
(* Properties *)

\* the numeric components of a breakdown, in the order the texts list them
ComponentOrder ==
    <<"total_score", "last_3f_score", "late_4f_score", "distance_score", "course_score",
      "style_bonus", "weight_penalty", "layoff_penalty", "grade_race_bonus",
      "shinba_boost", "winning_streak_bonus", "cr_score", "consecutive_loss_penalty",
      "danger_penalty">>

ScoreKeys == {ComponentOrder[i] : i \in 1 .. Len(ComponentOrder)}

AllContexts == {CtxMile, CtxMilePlain, CtxStayer, CtxDirt, CtxNoImpost}

\* the engine has returned and no text has been asked for yet
JustScored == pc = "scored" /\ text = Pending /\ vtext = Pending

\* the 1-based record i of h is a big loss / an excused one
BigLoss(h, i) == "goal_time_diff" \in DOMAIN h[i] /\ h[i].goal_time_diff >= 11

Excused(h, i) == _should_reduce_big_loss_penalty(h, i - 1)

\* the length of the unbroken run of big losses h starts with
LossRun(h) ==
    CHOOSE n \in 0 .. Len(h) :
        /\ \A i \in 1 .. n : BigLoss(h, i)
        /\ n < Len(h) => ~BigLoss(h, n + 1)

TierOf(n) == <<0, -30, -80, -150>>[Min2(n, 3) + 1]

\* C1: with an empty history every sub-score of the returned breakdown and
\* its total are 0.0, whatever the impost, age, sex, target race and
\* style/pace context
C1_EmptyHistoryScoresZero ==
    (pc = "scored" /\ history = <<>>) => \A k \in ScoreKeys : result[k] = 0

\* C2: no operation ends in an exception: calculate_total_score returns a
\* breakdown and both formatters return a text
C2_NoOperationRaises ==
    /\ pc = "scored" => ScoreKeys \subseteq DOMAIN result
    /\ text.outcome \in {"pending", "returned"}
    /\ vtext.outcome \in {"pending", "returned"}

\* C3: the consecutive-big-loss penalty is one of 0, -3, -8, -15, it is the
\* step of the non-increasing ladder 0 -> 0, 1 -> -3, 2 -> -8, 3 or more ->
\* -15 at the effective loss count, and it is the same under every target
\* race, impost, style/pace context and date
C3_LossPenaltyLadder ==
    pc = "scored" =>
        LET n == ReducedCount(history, 0, LossRun(history))
        IN  /\ result.consecutive_loss_penalty \in {0, -30, -80, -150}
            /\ result.consecutive_loss_penalty = TierOf(n)
            /\ \A a, b \in 0 .. Len(history) : a <= b => TierOf(a) >= TierOf(b)
            /\ JustScored => \A c \in AllContexts :
                  calculate_total_score(c, history, today + 365).consecutive_loss_penalty
                      = result.consecutive_loss_penalty

C3_Witness ==
    /\ pc = "scored"
    /\ ReducedCount(history, 0, LossRun(history)) >= 3
    /\ result.consecutive_loss_penalty = -150

C5_BoostOnlyAfterSingleDebut ==
    pc = "scored" =>
        (result.shinba_boost # 0
            => Len(history) = 1 /\ Contains(history[1].race_name, <<"shinba">>))

C5_Witness ==
    /\ pc = "scored"
    /\ Len(history) >= 2
    /\ Contains(history[1].race_name, <<"shinba">>)
    /\ history[1].chakujun = 1
    /\ result.shinba_boost = 0

\* the own sectional is at least d tenths faster than the field average
FasterThanField(r, d) ==
    LET valid_3f == Valid3f(Get(r, "all_horses_results", <<>>))
    IN  /\ Get(r, "last_3f", 0) > 0
        /\ valid_3f # <<>>
        /\ SumSeq(valid_3f) - r.last_3f * Len(valid_3f) >= d * Len(valid_3f)

QualifiesForRecord(h, i, c) ==
    /\ Get(h[i], "chakujun", 99) # 0
    /\ Get(h[i], "chakujun", 99) < 90
    /\ Get(h[i], "track_type", "") = c.target_track_type
    /\ Abs(Get(h[i], "dist", 0) - c.target_distance) <= 200
    /\ GoalSec(h[i]) > 0
    /\ RaceCourseRecord(h[i]) > 0

\* the only qualifying record among the first five of h is record i, run at
\* the target distance in a time 1.0s above the record of its course
LoneRecordRun(h, i, c) ==
    /\ i <= Len(h)
    /\ \A j \in 1 .. Min2(5, Len(h)) : QualifiesForRecord(h, j, c) <=> j = i
    /\ h[i].dist = c.target_distance
    /\ GoalSec(h[i]) = RaceCourseRecord(h[i]) + 10

\* C7: when the only qualifying record is in slot i (0..4), on the target
\* surface (turf, the surface of the course-record table) at the target
\* distance, 1.0s slower than the record of the course it was run on, the
\* course-record score is 8.0 times the recency weight 1.0, 0.7, 0.5, 0.4,
\* 0.3 of the slot
C7_CourseRecordSlot ==
    (pc = "scored" /\ ctx.target_track_type = "turf") =>
        \A i \in 1 .. 5 :
            LoneRecordRun(history, i, ctx)
                => result.cr_score = <<80, 56, 40, 32, 24>>[i]

C7_Witness ==
    /\ pc = "scored"
    /\ ctx.target_track_type = "turf"
    /\ LoneRecordRun(history, 5, ctx)
    /\ result.cr_score = 24

\* the sum of the values on the component lines under the headline
RenderedSum(lines) ==
    SumSeq([i \in 1 .. Len(lines) |->
               IF lines[i].label = "total_score" THEN 0 ELSE lines[i].value])

\* C8: the point values on the component lines of format_score_breakdown add
\* up to the total of the breakdown, within 0.1
C8_RenderedSumIsTotal ==
    text.outcome = "returned"
        => Abs(RenderedSum(text.lines) - result.total_score) <= 1

\* the position of a component in the fixed order
OrderOf(label) == CHOOSE i \in 1 .. Len(ComponentOrder) : ComponentOrder[i] = label

\* t renders every nonzero component of res with its value, in the order
Renders(t, res) ==
    /\ t.outcome = "returned"
    /\ \A k \in ScoreKeys :
          res[k] # 0 => \E i \in 1 .. Len(t.lines) : t.lines[i] = Line(k, res[k])
    /\ \A i, j \in 1 .. Len(t.lines) :
          (i < j /\ t.lines[i].label \in ScoreKeys /\ t.lines[j].label \in ScoreKeys)
              => OrderOf(t.lines[i].label) < OrderOf(t.lines[j].label)

\* C9: the breakdown holds every named component, and each of the two
\* formatters renders every nonzero component, in a fixed order, with the
\* value the breakdown holds
C9_EveryComponentRendered ==
    /\ pc = "scored" => ScoreKeys \subseteq DOMAIN result
    /\ text # Pending => Renders(text, result)
    /\ vtext # Pending => Renders(vtext, result)

\* C10: records behind the fifth change nothing: the breakdown of a history
\* of more than five records is the breakdown of its first five, in every
\* component
C10_OlderRecordsIgnored ==
    (JustScored /\ Len(history) > 5)
        => result = calculate_total_score(ctx, SubSeq(history, 1, 5), today)

C10_Witness ==
    /\ pc = "scored"
    /\ Len(history) > 5
    /\ GradeRaceBonus(history[Len(history)]) > 0
    /\ result.grade_race_bonus > 0

\* the history without its non-finishing records
Finishers(h) == SelectSeq(h, LAMBDA race : ~NonFinisher(race))

\* C11: a non-finishing record (finish position 0 or 90 and above)
\* contributes to no sub-score: every component of the breakdown equals the
\* component computed from the history with the non-finishing records
\* removed
C11_NonFinishersContributeNothing ==
    JustScored => result = calculate_total_score(ctx, Finishers(history), today)

\* the records among the first five of h the course-record score evaluates
RecordRuns(h, c) ==
    {i \in 1 .. Min2(5, Len(h)) :
        CourseRecordEvaluated(h[i], c.target_distance, c.target_track_type)}

\* C12: after calculate_total_score the hard caps hold: distance
\* suitability and course suitability are within [0, 15], the course-record
\* score and the win-streak bonus are within [0, 10]
C12_HardCaps ==
    pc = "scored" =>
        /\ result.distance_score >= 0 /\ result.distance_score <= 150
        /\ result.course_score >= 0 /\ result.course_score <= 150
        /\ result.cr_score >= 0 /\ result.cr_score <= 100
        /\ result.winning_streak_bonus >= 0 /\ result.winning_streak_bonus <= 100

\* two runs within a second of the record add up to more than 10 points and
\* the score is held at the cap
C12_Witness ==
    /\ pc = "scored"
    /\ {1, 2} \subseteq RecordRuns(history, ctx)
    /\ ctx.target_track_type = "turf"
    /\ \A i \in {1, 2} :
          /\ history[i].dist = ctx.target_distance
          /\ GoalSec(history[i]) - RaceCourseRecord(history[i]) <= 10
    /\ result.cr_score = 100
    /\ result.distance_score = 150

\* the days on which a call is made
CallDays == {5000 + s[3] : s \in Scenarios}

\* C13: calculate_total_score is a function of its arguments: a call with
\* the same impost, age, sex, target, history, style and pace returns the
\* same breakdown on whatever day it is made
C13_SameArgumentsSameBreakdown ==
    JustScored => \A now \in CallDays : calculate_total_score(ctx, history, now) = result

\* C14: calculate_total_score and both formatters leave the history, every
\* record in it, the style info and the pace prediction as they were; in one
\* race the pace prediction is computed once and the same value reaches the
\* scoring of every entrant
C14_InputsUnchanged ==
    [][ /\ pc' = "scored" => (history' = history /\ ctx' = ctx)
        /\ RaceArgs(ctx') = RaceArgs(ctx) ]_vars

\* a second entrant of the race has been scored and explained
C14_Witness ==
    /\ pc = "scored"
    /\ RowArgs(ctx) = RowArgs(CtxMileRival)
    /\ pool = PoolLossDistance
    /\ history # <<>>
    /\ ctx.race_pace_prediction = CtxMile.race_pace_prediction
    /\ vtext.outcome = "returned"
    /\ text.outcome = "returned"

\* the distances of past races: every 50m from 800m to 3800m
PastDistances == {800 + 50 * k : k \in 0 .. 60}

\* 15 points at 0m falling linearly to 10 at 200m, 10 up to 400m, 5 up to
\* 600m and 0 beyond, in fortieths of a point
BaseByGap(gap) ==
    IF gap <= 200 THEN 600 - gap
    ELSE IF gap <= 400 THEN 400
    ELSE IF gap <= 600 THEN 200
    ELSE 0

\* C15: the distance base points depend only on the absolute difference of
\* target and past distance: a pair with the opposite signed difference gets
\* the same points, and the points are 15 at 0m, linear down to 10 at 200m,
\* 10 up to 400m, 5 up to 600m, 0 beyond; a single finished record scores
\* these points times its margin coefficient
C15_DistanceBaseSymmetric ==
    JustScored =>
        LET t == ctx.target_distance
        IN  /\ \A d \in PastDistances :
                  /\ DistanceBasePts(t, d) = DistanceBasePts(d, t)
                  /\ 2 * t - d > 0 => DistanceBasePts(t, d) = DistanceBasePts(t, 2 * t - d)
                  /\ DistanceBasePts(t, d) = BaseByGap(Abs(t - d))
            /\ (Len(history) = 1 /\ ~NonFinisher(history[1]) /\ history[1].dist > 0)
                  => result.distance_score
                       = RoundDiv(BaseByGap(Abs(t - history[1].dist)) * MarginCoef(history[1]), 400)

\* a single record run 600m beyond the target distance earns 5 points times
\* its coefficient
C15_Witness ==
    /\ pc = "scored"
    /\ Len(history) = 1
    /\ ~NonFinisher(history[1])
    /\ history[1].dist - ctx.target_distance = 600
    /\ result.distance_score = RoundDiv(200 * MarginCoef(history[1]), 400)
    /\ result.distance_score > 0

\* h with every record moved to one course, all other fields as they are
AtCourse(h, course) == [i \in 1 .. Len(h) |-> [h[i] EXCEPT !.course = course]]

OnTargetSurface(h, c) ==
    \A i \in 1 .. Len(h) : Get(h[i], "track_type", "") = c.target_track_type

AwayCourses(c) == {"Tokyo", "Nakayama", "Hanshin", "Kyoto", "Oi"} \ {c.target_course}

\* one of the five most recent records is a finisher
HasRecentFinisher(h) == \E i \in 1 .. Min2(5, Len(h)) : ~NonFinisher(h[i])

\* the course score of the records of h at the target course is greater
\* than that of the same records at every other course, which is 0
HomeBeatsAway(h, c) ==
    \A away \in AwayCourses(c) :
        /\ _calculate_course_score(AtCourse(h, away), c.target_course, c.target_track_type) = 0
        /\ _calculate_course_score(AtCourse(h, c.target_course), c.target_course, c.target_track_type)
             > _calculate_course_score(AtCourse(h, away), c.target_course, c.target_track_type)

FullScale == 100 * 120000

\* C17: in calculate_total_score every normalised component (sectional
\* time, distance, course, style and late section) lies within [0, 100]
\* before it is multiplied by its weight
C17_NormalizedWithinRange ==
    JustScored =>
        LET n == Normalized(SubScores(ctx, history, today))
        IN  \A k \in DOMAIN n : n[k] >= 0 /\ n[k] <= FullScale

\* record i of h is a regional race
Regional(h, i) == _is_local_race(Get(h[i], "race_name", <<>>), Get(h[i], "course", ""))

\* the regional records in the window of the five most recent records
RegionalInWindow(h) == {i \in 1 .. Min2(5, Len(h)) : Regional(h, i)}

\* C18: the regional-horse flag is set only when more than half of the
\* records in the five-record window are regional and the most recent
\* record is regional; the danger penalty is -15 when the flag is set and 0
\* when it is not
C18_RegionalFlag ==
    pc = "scored" =>
        /\ result.danger_flags.local_to_jra
              => /\ 2 * Cardinality(RegionalInWindow(history)) > Min2(5, Len(history))
                 /\ Regional(history, 1)
        /\ result.danger_flags.local_to_jra => result.danger_penalty = -150
        /\ ~result.danger_flags.local_to_jra => result.danger_penalty = 0

\* four regional records and one other in the window, the most recent one
\* regional: flagged
C18_Witness ==
    /\ pc = "scored"
    /\ Len(history) >= 5
    /\ Cardinality(RegionalInWindow(history)) = 4
    /\ Regional(history, 1)
    /\ result.danger_flags.local_to_jra
    /\ result.danger_penalty = -150

\* the label of record i of h carries a grade or exchange-grade mark
GradedLabel(h, i) ==
    detect_race_grade(Get(h[i], "race_name", <<>>))[1] \in {"G1", "G2", "G3"}

\* C19: a race whose label marks a graded or interregional graded race is
\* never classified as regional by _is_local_race, whatever its course:
\* every label that detect_race_grade classifies as G1, G2 or G3 is not
\* regional
C19_GradedNeverRegional ==
    pc = "scored" =>
        \A i \in 1 .. Len(history) : GradedLabel(history, i) => ~Regional(history, i)

Tier3Markers == {<<"G", "3">>, <<"G", "I", "I", "I">>, <<"J", "p", "n", "I", "I", "I">>}

Tier2Markers == {<<"G", "2">>, <<"G", "I", "I">>, <<"J", "p", "n", "I", "I">>}

Marked(label, markers) == \E marker \in markers : Contains(label, marker)

\* C20: detect_race_grade tries longer markers before shorter ones: a label
\* with a tier-3 marker (G3, GIII, JpnIII) is G3 with coefficient 0.90; a
\* label with a tier-2 marker (G2, GII, JpnII) and no tier-3 marker is G2;
\* an empty or unmatched label gets 0.60, which is below the coefficient of
\* every tier.  A single finished tier-3 record earns the G3 bonus
C20_LongerMarkersFirst ==
    pc = "scored" =>
        /\ \A i \in 1 .. Len(history) :
              LET label == Get(history[i], "race_name", <<>>)
                  grade == detect_race_grade(label)
              IN  /\ Marked(label, Tier3Markers) => grade = <<"G3", 90>>
                  /\ (Marked(label, Tier2Markers) /\ ~Marked(label, Tier3Markers))
                        => grade[1] = "G2"
                  /\ label = <<>> => grade[2] = 60
                  /\ grade[1] = "unknown" => grade[2] = 60
                  /\ grade[1] # "unknown" => grade[2] > 60
        /\ ( /\ Len(history) = 1
             /\ Marked(history[1].race_name, Tier3Markers)
             /\ ~NonFinisher(history[1]) )
              => result.grade_race_bonus
                   = (IF history[1].chakujun = 1 THEN 50
                      ELSE IF history[1].chakujun \in {2, 3} THEN 30 ELSE 20)

\* a history with a JpnIII label, a JpnII label and an empty label
C20_Witness ==
    /\ pc = "scored"
    /\ \E i, j, k \in 1 .. Len(history) :
          /\ Contains(history[i].race_name, <<"J", "p", "n", "I", "I", "I">>)
          /\ detect_race_grade(history[i].race_name) = <<"G3", 90>>
          /\ history[j].race_name = <<"J", "p", "n", "I", "I">>
          /\ detect_race_grade(history[j].race_name) = <<"G2", 95>>
          /\ history[k].race_name = <<>>
          /\ detect_race_grade(history[k].race_name)[2] = 60

\* the time-decay sequence 1.0, 0.85, 0.72 of slots 0, 1, 2, in hundredths
DecayByFifteenPercent == <<100, 85, 72>>

\* the records among the first five of h the sectional score evaluates
SectionalRuns(h) ==
    {i \in 1 .. Min2(5, Len(h)) :
        /\ ~NonFinisher(h[i])
        /\ Get(h[i], "dist", 0) > 0
        /\ Get(h[i], "last_3f", 0) > 0}

\* C21: in the sectional-time score the record at slot i contributes its
\* points times reliability = grade coefficient x (0.4 if regional) x (0.3
\* if the surface differs from the target) times the time decay, and the
\* time decay over slots 0, 1, 2 is 1.0, 0.85, 0.72
C21_SectionalDecay ==
    (pc = "scored" /\ Len(history) <= 3) =>
        LET used == SectionalRuns(history)
        IN  result.last_3f_score
              = RoundDiv(SumOver([i \in used |->
                             Last3fPoints(history[i])
                               * Last3fReliability(history[i], ctx.target_track_type)
                               * DecayByFifteenPercent[i]], used), 1000000)

\* the own sectional of debut record r is faster than the field average
OutSectioned(r) ==
    LET valid_3f == Valid3f(Get(r, "all_horses_results", <<>>))
    IN  /\ Get(r, "last_3f", 0) > 0
        /\ valid_3f # <<>>
        /\ r.last_3f * Len(valid_3f) < SumSeq(valid_3f)

\* debut record r was run from the back half of the field at the last corner
FromBackHalf(r) ==
    /\ Get(r, "position_4c", 0) > 0
    /\ Get(r, "field_size", 0) > 0
    /\ 2 * r.position_4c > r.field_size

\* twice the two extra bonuses of debut record r, in tenths of a point, when
\* a moderate loss counts the position bonus by position_moderate
\* twentieths of a point
TwiceExtras(r, position_moderate) ==
    LET margin == Abs(Get(r, "goal_time_diff", 0))
        sectional == IF ~FasterThanField(r, 5) THEN 0
                     ELSE IF margin >= 11 THEN 0
                     ELSE IF margin >= 7 THEN 20
                     ELSE 40
        position == IF ~(FromBackHalf(r) /\ OutSectioned(r)) THEN 0
                    ELSE IF margin >= 11 THEN 0
                    ELSE IF margin >= 7 THEN position_moderate
                    ELSE 30
    IN  sectional + position

\* the finish-position base of debut record r, in tenths of a point
DebutBase(r) ==
    LET chakujun == Get(r, "chakujun", 99)
    IN  IF chakujun = 1 THEN 30 ELSE IF chakujun = 2 THEN 15
        ELSE IF chakujun = 3 THEN 5 ELSE 0

\* the history is a single debut record that has been scored
DebutScored ==
    /\ pc = "scored"
    /\ Len(history) = 1
    /\ Contains(Get(history[1], "race_name", <<>>), <<"shinba">>)

\* C22 as stated: both extra bonuses of the debut boost are voided by a
\* winner-time-gap of 1.1s or more, both are halved by a gap of 0.7s or
\* more and below 1.1s, and both are granted in full below 0.7s
C22_BothBonusesHalved ==
    DebutScored =>
        2 * result.shinba_boost
          = 2 * DebutBase(history[1]) + TwiceExtras(history[1], 15)

\* C22: in the debut boost a winner-time-gap of 1.1s or more voids both
\* extra bonuses; a gap of 0.7s or more and below 1.1s halves the sectional
\* bonus (2.0 to 1.0) and leaves the back-half-position bonus at 1.5; below
\* 0.7s both are granted in full
C22_LossLimitsBonuses ==
    DebutScored =>
        2 * result.shinba_boost
          = 2 * DebutBase(history[1]) + TwiceExtras(history[1], 30)

C22_Witness ==
    /\ DebutScored
    /\ Abs(Get(history[1], "goal_time_diff", 0)) \in 7 .. 10
    /\ FasterThanField(history[1], 5)
    /\ FromBackHalf(history[1])
    /\ result.shinba_boost = DebutBase(history[1]) + 10 + 15

\* the reasons the notes of the penalty give for excusing the big loss in
\* record i of h: a distance change of 600m or more from the start before
\* it, a stopped start before it, or a return from 120 days or more off
ExcusedLoss(h, i) ==
    /\ i < Len(h)
    /\ \/ Abs(Get(h[i], "dist", 0) - Get(h[i + 1], "dist", 0)) >= 600
       \/ Get(h[i + 1], "chakujun", 0) = 0
       \/ /\ Get(h[i], "race_date", 0) > 0
          /\ Get(h[i + 1], "race_date", 0) > 0
          /\ h[i].race_date - h[i + 1].race_date >= 120

\* the big losses counted from the most recent record backward: those of
\* the unbroken run in front of the first excused one
CountedLosses(h) ==
    {i \in 1 .. LossRun(h) : \A j \in 1 .. i : ~ExcusedLoss(h, j)}

\* C23: the effective big-loss count is the number of non-excused big
\* losses from the most recent record backward up to the first excused big
\* loss, where the streak is reset: an excused most recent big loss gives
\* penalty 0, and a most recent loss that is not excused in front of an
\* excused one gives -3
C23_StreakResetsAtExcused ==
    pc = "scored" =>
        /\ result.consecutive_loss_penalty
             = TierOf(Cardinality(CountedLosses(history)))
        /\ (LossRun(history) >= 1 /\ ExcusedLoss(history, 1))
              => result.consecutive_loss_penalty = 0
        /\ ( /\ LossRun(history) >= 2
             /\ ~ExcusedLoss(history, 1)
             /\ ExcusedLoss(history, 2) )
              => result.consecutive_loss_penalty = -30

C23_Witness ==
    /\ pc = "scored"
    /\ LossRun(history) >= 2
    /\ ~ExcusedLoss(history, 1)
    /\ ExcusedLoss(history, 2)
    /\ Abs(history[2].dist - history[3].dist) >= 600
    /\ result.consecutive_loss_penalty = -30

\* the pace of the race has been predicted from the styles of the card
PacePredicted == phase \in {"scoring", "done"} /\ pace_prediction # None

\* the courses of the straight-length table and one outside it
AnyCourse == DOMAIN COURSE_CHARACTERISTICS \cup {"Oi"}

\* C24: the thresholds of predict_race_pace come from three tiers keyed by
\* the straight length, the long straight with the lowest threshold for a
\* fast pace and the short straight with the highest: entrants that make
\* the pace fast on a short-straight course make it fast on a standard
\* course and on a long-straight course as well
C24_FastOnShortFastEverywhere ==
    ( /\ PacePredicted
      /\ StraightLength(race_venue) <= 320
      /\ pace_prediction.pace = "high" )
        => \A c \in AnyCourse :
              StraightLength(c) > 320
                => predict_race_pace(all_running_styles, Len(card), c).pace = "high"

\* slow < medium < fast
PaceRank(prediction) ==
    CASE prediction.pace = "slow" -> 0
      [] prediction.pace = "middle" -> 1
      [] prediction.pace = "high" -> 2

\* the styles an entry of the field can carry
FieldStyles == {"nige", "senko", "sashi", "oikomi", "unknown"}

\* the rank of the pace predicted for the field horses at course c
RankAt(horses, c) == PaceRank(predict_race_pace(horses, Len(horses), c))

\* field horses with entrant i changed to style s
Restyled(horses, i, s) == [horses EXCEPT ![i] = [style |-> s]]

\* from the field horses on, one more entrant of any style and the change
\* of a closer, deep closer or unknown into a front-runner or stalker never
\* give a slower pace at course c
NeverSlower(horses, c) ==
    \A s \in FieldStyles :
        LET more == Append(horses, [style |-> s])
        IN  /\ RankAt(more, c) >= RankAt(horses, c)
            /\ \A i \in 1 .. Len(more) : \A f \in {"nige", "senko"} :
                  Get(more[i], "style", "unknown") \in {"sashi", "oikomi", "unknown"}
                      => RankAt(Restyled(more, i, f), c) >= RankAt(more, c)

\* C29 as stated: at a fixed course the predicted pace is monotone in the
\* field's styles, from every field on, the empty one included, and an
\* empty style list gives medium
C29_PaceMonotoneFromEmpty ==
    phase # "idle" =>
        \A c \in AnyCourse :
            /\ predict_race_pace(<<>>, Len(card), c).pace = "middle"
            /\ \A n \in 0 .. Len(all_running_styles) :
                  NeverSlower(SubSeq(all_running_styles, 1, n), c)

\* C29: at a fixed course the pace predicted for a field of at least one
\* entrant never gets slower when an entrant of any style is added or when
\* a closer, deep closer or unknown becomes a front-runner or stalker; an
\* empty style list gives medium, and one entrant added to it can give slow
C29_PaceMonotone ==
    phase # "idle" =>
        \A c \in AnyCourse :
            /\ predict_race_pace(<<>>, Len(card), c).pace = "middle"
            /\ \A n \in 1 .. Len(all_running_styles) :
                  NeverSlower(SubSeq(all_running_styles, 1, n), c)

\* the last entrant analysed has made the predicted pace faster
C29_Witness ==
    /\ PacePredicted
    /\ Len(all_running_styles) >= 2
    /\ RankAt(all_running_styles, race_venue)
         > RankAt(SubSeq(all_running_styles, 1, Len(all_running_styles) - 1), race_venue)
    /\ PaceRank(pace_prediction) = RankAt(all_running_styles, race_venue)

\* a name with its whitespace removed and its letters lower-cased
NameKey(name) ==
    LET solid == SelectSeq(name, LAMBDA ch : ch \notin Whitespace)
    IN  [i \in 1 .. Len(solid) |->
            IF solid[i] \in DOMAIN LowerCase THEN LowerCase[solid[i]] ELSE solid[i]]

\* the step is a call of _get_horse_history_cached
CachedCall == calls' = calls + 1

\* the step is clear_cache
Cleared == calls' = 0 /\ horse_cache_by_name' = <<>> /\ phase = "done" /\ phase' = "done"

\* C30: with the session store, (1) once a fetch for a name has returned a
\* non-empty history it is stored under the name with whitespace removed
\* and letters lower-cased, it stays stored until clear_cache, and every
\* call whose name has that key returns it without fetching, whatever the
\* horse_id; (2) an empty fetch result is not stored, so the next call for
\* the name fetches again; (3) every call increments exactly one of
\* cache_hits and api_calls, and their sum is the number of calls since the
\* last clear_cache
C30_CacheContract ==
    [][ /\ CachedCall =>
            LET key == NameKey(answer'.horse_name)
            IN  /\ key \in DOMAIN horse_cache_by_name =>
                      /\ answer'.history = horse_cache_by_name[key]
                      /\ ~answer'.fetched
                      /\ horse_cache_by_name' = horse_cache_by_name
                      /\ cache_hits' = cache_hits + 1
                      /\ api_calls' = api_calls
                /\ key \notin DOMAIN horse_cache_by_name =>
                      /\ answer'.fetched
                      /\ cache_hits' = cache_hits
                      /\ api_calls' = api_calls + 1
                      /\ answer'.history # <<>> =>
                            /\ DOMAIN horse_cache_by_name'
                                 = DOMAIN horse_cache_by_name \cup {key}
                            /\ horse_cache_by_name'[key] = answer'.history
                      /\ answer'.history = <<>> =>
                            horse_cache_by_name' = horse_cache_by_name
        /\ ~Cleared =>
              \A k \in DOMAIN horse_cache_by_name :
                  /\ k \in DOMAIN horse_cache_by_name'
                  /\ horse_cache_by_name'[k] = horse_cache_by_name[k]
        /\ \A k \in DOMAIN horse_cache_by_name' : horse_cache_by_name'[k] # <<>>
        /\ cache_hits' + api_calls' = calls'
      ]_vars

\* a call for another horse_id under another spelling of a stored name has
\* returned the stored history without fetching, after an empty fetch
C30_Witness ==
    /\ answer.horse_id = "h2"
    /\ ~answer.fetched
    /\ answer.history = Pages["h1"]
    /\ answer.history # Pages["h2"]
    /\ NameKey(<<"A", "c", "e">>) = NameKey(answer.horse_name)
    /\ cache_hits >= 1
    /\ api_calls > Cardinality(DOMAIN horse_cache_by_name)
    /\ cache_hits + api_calls = calls

\* gaps in days: the days around each step of the ladder, the ends of the
\* fourth month and of the year, and longer ones
LayoffGaps ==
    {0, 30, 119, 120, 121, 122, 152, 153, 182, 183, 213, 214, 243, 244, 273, 274,
     304, 305, 334, 335, 364, 365, 366, 400, 730, 1500}

LayoffValues == {0, -40, -60, -80, -100, -110, -120, -140, -160, -200}

\* the layoff penalty of history h on the day d days after its most
\* recent start
LayoffAfter(h, d) == _calculate_layoff_penalty(h, h[1].race_date + d)

\* history h with the date of its most recent start replaced by text d
Redated(h, d) == [h EXCEPT ![1] = [h[1] EXCEPT !.race_date = d]]

\* C25: the layoff penalty is a stepped ladder on the whole days since the
\* most recent start: 0 for every gap up to 120 days, non-increasing in the
\* days, one of 0, -4, -6, -8, -10, -11, -12, -14, -16, -20, and -20 for
\* every gap of a year or more; a missing or unparseable date gives 0
C25_LayoffLadder ==
    (pc = "scored" /\ history # <<>>) =>
        /\ result.layoff_penalty = LayoffAfter(history, today - history[1].race_date)
        /\ \A penalty \in {[d \in LayoffGaps |-> LayoffAfter(history, d)]} :
              \A d \in LayoffGaps :
                  /\ penalty[d] \in LayoffValues
                  /\ d <= 120 => penalty[d] = 0
                  /\ d >= 365 => penalty[d] = -200
                  /\ \A e \in LayoffGaps : d <= e => penalty[d] >= penalty[e]
        /\ _calculate_layoff_penalty(Redated(history, 0), today) = 0
        /\ _calculate_layoff_penalty(Redated(history, -1), today) = 0
        /\ _calculate_layoff_penalty(<<[chakujun |-> 1]>> \o Tail(history), today) = 0

C25_Witness ==
    /\ pc = "scored"
    /\ history # <<>>
    /\ today - history[1].race_date >= 365
    /\ result.layoff_penalty = -200

\* record i of h is on the surface of c and within 200m of its distance
WithinTolerance(h, i, c) ==
    /\ Get(h[i], "track_type", "") = c.target_track_type
    /\ Abs(Get(h[i], "dist", 0) - c.target_distance) <= 200

\* context c with the target distance moved to d
AtDistance(c, d) == [c EXCEPT !.target_distance = d]

\* the course-record score of history h under context c, in tenths
RecordScore(c, h) ==
    _calculate_course_record_score(h, c.target_course, c.target_distance, c.target_track_type)

\* C26: in the course-record score a record whose distance differs from the
\* target by a non-zero amount within the 200m tolerance is discounted: the
\* only record that counts scores strictly less than it would in the same
\* slot with zero distance difference; records beyond the tolerance or on
\* another surface contribute nothing
C26_OffDistanceDiscounted ==
    JustScored =>
        /\ (\A i \in 1 .. Min2(5, Len(history)) : ~WithinTolerance(history, i, ctx))
              => result.cr_score = 0
        /\ \A i \in 1 .. Min2(5, Len(history)) :
              LET same == AtDistance(ctx, history[i].dist)
              IN  ( /\ \A j \in 1 .. Min2(5, Len(history)) :
                          /\ QualifiesForRecord(history, j, ctx) <=> j = i
                          /\ QualifiesForRecord(history, j, same) <=> j = i
                    /\ history[i].dist # ctx.target_distance
                    /\ RecordScore(same, history) > 0 )
                  => result.cr_score < RecordScore(same, history)

\* C27: get_style_weight returns the multiplier of the course/distance
\* table for a tabulated course and a distance-only fallback for a course
\* absent from the table; in every case the weight is in the range of the
\* tabulated multipliers, at most 0.20, so an untabulated course never
\* yields a larger style bonus than a tabulated one
C27_StyleWeightAtMostFifth ==
    (pc = "scored" /\ "running_style_info" \in DOMAIN ctx) =>
        LET style == ctx.running_style_info.style
            weight == get_style_weight(ctx.target_course, ctx.target_distance, style)
        IN  /\ weight <= 20
            /\ \A k \in DOMAIN COURSE_DISTANCE_STYLE_WEIGHTS :
                  (k[1] = ctx.target_course /\ k[2] = ctx.target_distance)
                      => weight = COURSE_DISTANCE_STYLE_WEIGHTS[k][style]
            /\ "race_pace_prediction" \in DOMAIN ctx =>
                  result.style_bonus
                    <= RoundDiv(calculate_style_match_bonus(style, ctx.race_pace_prediction.pace,
                                    ctx.target_course, ctx.target_distance)
                                  * ctx.running_style_info.confidence * 20, 100000)

\* sub-scores with every normalized component at its cap and no other term
AllCapped ==
    [last_3f_score |-> 1500, distance_score |-> 150, course_score |-> 150,
     style_fine |-> 4000000, late_4f_score |-> 500,
     weight_penalty |-> 0, layoff_penalty |-> 0, grade_race_bonus |-> 0,
     shinba_boost |-> 0, consecutive_loss_penalty |-> 0, winning_streak_bonus |-> 0,
     cr_score |-> 0, danger_penalty |-> 0]

\* sub-scores s without the terms that are added unnormalized
WeightedOnly(s) ==
    [k \in DOMAIN AllCapped |->
        IF k \in {"last_3f_score", "distance_score", "course_score", "style_fine",
                  "late_4f_score"}
        THEN s[k] ELSE 0]

\* 100 points in the unit of WeightedTotal
HundredPoints == 100 * 2400000

\* C28: in both presets (long-distance turf: target distance >= 1800 on
\* turf; standard: everything else) the weights of the normalized
\* components sum to exactly 1.0: the weighted part of the total is at most
\* 100 and is 100 when every normalized component is at its cap
C28_WeightsSumToOne ==
    JustScored =>
        /\ WeightedTotal(ctx, AllCapped) = HundredPoints
        /\ \A s \in {SubScores(ctx, history, today)} :
              WeightedTotal(ctx, WeightedOnly(s)) <= HundredPoints
====
